---- MODULE Spec2Model ----
(***************************************************************************)
(* Model of the COBOL copybook / fixed-width record processor of           *)
(* scripts/cobol_processor.py.                                             *)
(*                                                                         *)
(* Text is modelled as a sequence of one-character strings, so that the    *)
(* regular expressions, slices, strips and counts of the Python code are   *)
(* computed character by character.  Python's None (picture, REDEFINES     *)
(* target) is the empty sequence: the regular expression never captures an *)
(* empty group, and the code only tests these values for truthiness.       *)
(***************************************************************************)
EXTENDS Integers, Sequences, FiniteSets, TLC

VARIABLES
    pc,                 \* position of the run
    pic_in,             \* parse_picture_clause / format_numeric_field: picture argument
    val_in,             \* format_numeric_field: value argument
    pic_out,            \* result of parse_picture_clause(pic_in)
    fmt_out,            \* result of format_numeric_field(val_in, pic_in)
    cpy,                \* lines of the copybook file (f.readlines())
    cpy_idx,            \* number of copybook lines consumed by the for loop
    fields,             \* parse_cobol_copybook: fields
    current_position,   \* parse_cobol_copybook: current_position
    current_group_start,\* parse_cobol_copybook: current_group_start
    redefines_groups,   \* parse_cobol_copybook: redefines_groups (insertion ordered)
    structure_lengths,  \* the "Structure lengths" report of the second pass
    all_lines,          \* lines of the data file
    record_types,       \* parse_data_file: record_types (insertion ordered)
    header,             \* export_to_csv: header row
    line_num,           \* export_to_csv: line_num of the enumerate loop
    line,               \* the line of the last detect_record_type call that returned
    record_type,        \* result of detect_record_type(line, record_types)
    decoded,            \* export_to_csv: the fields decoded for the current line
    rows,               \* export_to_csv: data rows written so far
    records_written,    \* export_to_csv: records_written
    cpy_file,           \* the copybook file on disk: open() error and bytes
    txt_file,           \* the data file on disk: open() error and bytes
    enc_idx,            \* parse_data_file: encodings of encodings_to_try consumed
    attempts,           \* parse_data_file: the encodings open() was called with
    txt_lines,          \* parse_data_file: lines (None until a decoding succeeds)
    used_encoding,      \* parse_data_file: used_encoding
    parsed_records,     \* the value parse_data_file returned
    escaped,            \* the exception that left the function, if any
    access_token,       \* ConsumerAPI.access_token
    token_expires_at,   \* ConsumerAPI.token_expires_at
    now,                \* time.time()
    response_cache,     \* ConsumerAPI.response_cache (insertion ordered)
    credit_number,      \* query_debt: credit_number of the call in progress
    retry_count,        \* _query_debt_with_retry: retry_count
    response,           \* _query_debt_with_retry: the response of requests.get
    result,             \* the value query_debt returned
    gets,               \* debt GET requests sent by the call in progress
    posts,              \* authentication POST requests sent by the call in progress
    returned,           \* the results query_debt returned so far, per credit number
    csv_rows,           \* the data rows of the CSV file on disk
    total_rows,         \* CSVData.total_rows
    page_size,          \* CSVData.page_size
    current_page,       \* CSVData.current_page
    filtered_indices,   \* CSVData.filtered_indices
    visible_columns,    \* CSVData.visible_columns
    ui_pc,              \* position of the event handler running on the UI thread
    ui_local,           \* local value of that handler
    workers             \* position of each _apply_filter_worker thread

vars == <<pc, pic_in, val_in, pic_out, fmt_out, cpy, cpy_idx, fields,
          current_position, current_group_start, redefines_groups,
          structure_lengths, all_lines, record_types, header, line_num, line,
          record_type, decoded, rows, records_written,
          cpy_file, txt_file, enc_idx, attempts, txt_lines, used_encoding,
          parsed_records, escaped,
          access_token, token_expires_at, now, response_cache, credit_number,
          retry_count, response, result, gets, posts, returned,
          csv_rows, total_rows, page_size, current_page, filtered_indices,
          visible_columns, ui_pc, ui_local, workers>>

pictureVars == <<pic_in, val_in, pic_out, fmt_out>>
copybookVars == <<cpy, cpy_idx, fields, current_position, current_group_start,
                  redefines_groups, structure_lengths>>
exportVars == <<all_lines, header, line_num, decoded, rows, records_written>>
classifyVars == <<record_types, line, record_type>>
readVars == <<cpy_file, txt_file, enc_idx, attempts, txt_lines, used_encoding,
              parsed_records, escaped>>
debtVars == <<access_token, token_expires_at, now, response_cache,
              credit_number, retry_count, response, result, gets, posts,
              returned>>
viewerVars == <<csv_rows, total_rows, page_size, current_page,
                filtered_indices, visible_columns, ui_pc, ui_local, workers>>

----------------------------------------------------------------------------
(* Characters and the str methods the code uses.                           *)

DigitSeq == <<"0", "1", "2", "3", "4", "5", "6", "7", "8", "9">>
LowerSeq == <<"a", "b", "c", "d", "e", "f", "g", "h", "i", "j", "k", "l", "m",
              "n", "o", "p", "q", "r", "s", "t", "u", "v", "w", "x", "y", "z">>
UpperSeq == <<"A", "B", "C", "D", "E", "F", "G", "H", "I", "J", "K", "L", "M",
              "N", "O", "P", "Q", "R", "S", "T", "U", "V", "W", "X", "Y", "Z">>

Range(s) == {s[i] : i \in DOMAIN s}

\* c.isdigit(), and \d of the regular expressions
IsDigit(c) == c \in Range(DigitSeq)

DigitValue(c) == (CHOOSE i \in DOMAIN DigitSeq : DigitSeq[i] = c) - 1

\* str.strip() without arguments strips whitespace; \s of the regular expressions
WhiteSpace == {" ", "\t", "\n", "\r"}

\* one character of str.upper()
UpperChar(c) ==
    IF c \in Range(LowerSeq)
    THEN UpperSeq[CHOOSE i \in DOMAIN LowerSeq : LowerSeq[i] = c]
    ELSE c

\* str.upper()
Upper(s) == [i \in DOMAIN s |-> UpperChar(s[i])]

\* s[i:] of Python with a 0-based i >= 0, written with the 1-based first index
From(s, i) == IF i > Len(s) THEN <<>> ELSE SubSeq(s, i, Len(s))

\* s.startswith(p) at the 1-based position i
StartsWithAt(s, i, p) ==
    /\ i + Len(p) - 1 <= Len(s)
    /\ \A k \in DOMAIN p : s[i + k - 1] = p[k]

\* str.count(c) for a single character c
Count(s, c) == Cardinality({i \in DOMAIN s : s[i] = c})

\* str.find(c) for a single character c, as a 1-based index; 0 when absent
Find(s, c) ==
    IF c \in Range(s) THEN CHOOSE i \in DOMAIN s :
                               s[i] = c /\ \A j \in 1..(i - 1) : s[j] # c
    ELSE 0

\* str.replace(p, '') from the 1-based position i on: occurrences are removed
\* left to right, without overlap
RECURSIVE RemoveFrom(_, _, _)
RemoveFrom(s, i, p) ==
    IF i > Len(s) THEN <<>>
    ELSE IF StartsWithAt(s, i, p) THEN RemoveFrom(s, i + Len(p), p)
    ELSE <<s[i]>> \o RemoveFrom(s, i + 1, p)

Remove(s, p) == RemoveFrom(s, 1, p)

\* str.lstrip(), str.rstrip(), str.strip() for a set of characters
RECURSIVE LStripSet(_, _)
LStripSet(s, cs) ==
    IF s # <<>> /\ s[1] \in cs THEN LStripSet(Tail(s), cs) ELSE s

RECURSIVE RStripSet(_, _)
RStripSet(s, cs) ==
    IF s # <<>> /\ s[Len(s)] \in cs THEN RStripSet(SubSeq(s, 1, Len(s) - 1), cs)
    ELSE s

RStrip(s) == RStripSet(s, WhiteSpace)

Strip(s) == LStripSet(RStripSet(s, WhiteSpace), WhiteSpace)

\* int(s) for a string of decimal digits
RECURSIVE ParseInt(_)
ParseInt(s) ==
    IF s = <<>> THEN 0
    ELSE 10 * ParseInt(SubSeq(s, 1, Len(s) - 1)) + DigitValue(s[Len(s)])

\* str(n) for n >= 0
RECURSIVE IntToStr(_)
IntToStr(n) ==
    IF n < 10 THEN <<DigitSeq[n + 1]>>
    ELSE IntToStr(n \div 10) \o <<DigitSeq[(n % 10) + 1]>>

RECURSIVE Pow10(_)
Pow10(d) == IF d = 0 THEN 1 ELSE 10 * Pow10(d - 1)

\* the end (1-based, exclusive) of the longest run of characters of cs from i
RECURSIVE RunEnd(_, _, _)
RunEnd(s, i, cs) ==
    IF i <= Len(s) /\ s[i] \in cs THEN RunEnd(s, i + 1, cs) ELSE i

\* the regular expression \((\d+)\) matched at the 1-based position i:
\* the digits of the group, or <<>> when it does not match there
ParenGroupAt(s, i) ==
    LET e == RunEnd(s, i + 1, Range(DigitSeq))
    IN  IF /\ i <= Len(s) /\ s[i] = "("
           /\ e > i + 1
           /\ e <= Len(s) /\ s[e] = ")"
        THEN SubSeq(s, i + 1, e - 1)
        ELSE <<>>

\* re.search(prefix + r'\((\d+)\)', s): group 1 of the leftmost match, or <<>>
SearchRepeat(s, prefix) ==
    LET hits == {i \in DOMAIN s :
                    /\ StartsWithAt(s, i, prefix)
                    /\ ParenGroupAt(s, i + Len(prefix)) # <<>>}
    IN  IF hits = {} THEN <<>>
        ELSE ParenGroupAt(s, (CHOOSE i \in hits : \A j \in hits : i <= j)
                               + Len(prefix))

----------------------------------------------------------------------------
(* parse_picture_clause                                                    *)

\* the decimal places added when V is present
DecimalLength(pic) ==
    LET decimal_part  == From(pic, Find(pic, "V") + 1)
        decimal_match == SearchRepeat(decimal_part, <<>>)
    IN  IF "(" \in Range(decimal_part)
        THEN IF decimal_match # <<>> THEN ParseInt(decimal_match) ELSE 0
        ELSE Count(decimal_part, "9")

\* parse_picture_clause that counts the X or 9 characters and never reads a
\* repetition group before V
parse_picture_clause_CountOnly(picture) ==
    IF picture = <<>> THEN <<0, "group">>
    ELSE
    LET pic == Strip(Remove(Remove(Upper(picture), <<"P", "I", "C">>),
                            <<"P", "I", "C", "T", "U", "R", "E">>))
    IN  IF "X" \in Range(pic)
        THEN <<Count(pic, "X"), "alphanumeric">>
        ELSE IF "9" \in Range(pic)
        THEN <<Count(pic, "9")
               + (IF "V" \in Range(pic) THEN DecimalLength(pic) ELSE 0),
               "numeric">>
        ELSE <<0, "alphanumeric">>

parse_picture_clause(picture) ==
    IF picture = <<>> THEN <<0, "group">>
    ELSE
    LET pic == Strip(Remove(Remove(Upper(picture), <<"P", "I", "C">>),
                            <<"P", "I", "C", "T", "U", "R", "E">>))
        x_match    == SearchRepeat(pic, <<"X">>)
        nine_match == SearchRepeat(pic, <<"9">>)
    IN  IF "X" \in Range(pic)
        THEN <<IF x_match # <<>> THEN ParseInt(x_match) ELSE Count(pic, "X"),
               "alphanumeric">>
        ELSE IF "9" \in Range(pic)
        THEN <<(IF nine_match # <<>> THEN ParseInt(nine_match)
                ELSE Count(pic, "9"))
               + (IF "V" \in Range(pic) THEN DecimalLength(pic) ELSE 0),
               "numeric">>
        ELSE <<0, "alphanumeric">>

----------------------------------------------------------------------------
(* format_numeric_field                                                    *)

\* ''.join(c for c in value if c.isdigit())
RECURSIVE DigitsOf(_)
DigitsOf(s) ==
    IF s = <<>> THEN <<>>
    ELSE (IF IsDigit(s[1]) THEN <<s[1]>> ELSE <<>>) \o DigitsOf(Tail(s))

\* s.zfill-like padding of the fraction digits of the :.df format
RECURSIVE PadLeft(_, _)
PadLeft(s, d) == IF Len(s) >= d THEN s ELSE PadLeft(<<"0">> \o s, d)

\* Natural numbers beyond the machine integers of the checker: the decimal
\* digits of the number, most significant first, zero being <<>>.
RECURSIVE BigNorm(_)
BigNorm(a) == IF a # <<>> /\ a[1] = 0 THEN BigNorm(Tail(a)) ELSE a

\* int(clean_value)
BigOfDigits(s) == BigNorm([i \in 1..Len(s) |-> DigitValue(s[i])])

RECURSIVE BigOfNat(_)
BigOfNat(n) == IF n = 0 THEN <<>> ELSE Append(BigOfNat(n \div 10), n % 10)

RECURSIVE BigCmpFrom(_, _, _)
BigCmpFrom(a, b, i) ==
    IF i > Len(a) THEN 0
    ELSE IF a[i] < b[i] THEN -1
    ELSE IF a[i] > b[i] THEN 1
    ELSE BigCmpFrom(a, b, i + 1)

\* -1, 0 or 1 as a < b, a = b or a > b
BigCmp(a, b) ==
    IF Len(a) < Len(b) THEN -1
    ELSE IF Len(a) > Len(b) THEN 1
    ELSE BigCmpFrom(a, b, 1)

RECURSIVE BigMulFrom(_, _, _, _)
BigMulFrom(a, m, i, carry) ==
    IF i = 0 THEN BigOfNat(carry)
    ELSE LET t == a[i] * m + carry
         IN  Append(BigMulFrom(a, m, i - 1, t \div 10), t % 10)

\* a * m + c for machine integers m and c
BigMulAdd(a, m, c) == BigNorm(BigMulFrom(a, m, Len(a), c))

RECURSIVE BigDivFrom(_, _, _, _)
BigDivFrom(a, m, i, rem) ==
    IF i > Len(a) THEN [q |-> <<>>, r |-> rem]
    ELSE LET t    == rem * 10 + a[i]
             rest == BigDivFrom(a, m, i + 1, t % m)
         IN  [q |-> <<t \div m>> \o rest.q, r |-> rest.r]

\* quotient and remainder of a by a machine integer m
BigDivMod(a, m) ==
    LET qr == BigDivFrom(a, m, 1, 0) IN [q |-> BigNorm(qr.q), r |-> qr.r]

BigIsOdd(a) == a # <<>> /\ a[Len(a)] % 2 = 1

RECURSIVE Pow2(_)
Pow2(k) == IF k = 0 THEN 1 ELSE 2 * Pow2(k - 1)

\* the shifts go ShiftChunk bits at a time, which keeps every intermediate
\* product inside the machine integers
ShiftChunk == 16

RECURSIVE BigShiftLeft(_, _)
BigShiftLeft(a, k) ==
    IF a = <<>> \/ k = 0 THEN a
    ELSE LET c == IF k < ShiftChunk THEN k ELSE ShiftChunk
         IN  BigShiftLeft(BigMulAdd(a, Pow2(c), 0), k - c)

BigPow2(k) == BigShiftLeft(<<1>>, k)

\* the significand of a binary64 float holds 53 bits
SignificandBits == 53

\* a / m rounded to the nearest integer, ties to the even one (IEEE 754
\* round-half-even, also the rounding of the :.df format)
RoundedQuotient(a, m) ==
    LET qr == BigDivMod(a, m)
    IN  IF 2 * qr.r > m \/ (2 * qr.r = m /\ BigIsOdd(qr.q))
        THEN BigMulAdd(qr.q, 1, 1) ELSE qr.q

\* a / 2^k rounded to the nearest integer, ties to the even one; sticky
\* tells that a nonzero bit was already shifted out
RECURSIVE RoundedShift(_, _, _)
RoundedShift(a, k, sticky) ==
    IF a = <<>> \/ k = 0 THEN a
    ELSE IF k > 1
    THEN LET c  == IF k - 1 < ShiftChunk THEN k - 1 ELSE ShiftChunk
             qr == BigDivMod(a, Pow2(c))
         IN  RoundedShift(qr.q, k - c, sticky \/ qr.r # 0)
    ELSE LET qr == BigDivMod(a, 2)
         IN  IF qr.r = 1 /\ (sticky \/ BigIsOdd(qr.q))
             THEN BigMulAdd(qr.q, 1, 1) ELSE qr.q

\* the least power of two m with n < 2^53 * m
RECURSIVE FloatUlp(_, _)
FloatUlp(n, m) ==
    IF BigCmp(n, BigMulAdd(BigPow2(SignificandBits), m, 0)) < 0 THEN m
    ELSE FloatUlp(n, 2 * m)

\* float(clean_value): the integer nearest to n that 53 bits can hold
FloatOfInt(n) ==
    LET ulp == FloatUlp(n, 1)
    IN  BigMulAdd(RoundedQuotient(n, ulp), ulp, 0)

\* the least f with x * 2^f >= 2^52 * p, with the shifted x
RECURSIVE ScaleUp(_, _, _)
ScaleUp(x, lo, f) ==
    IF BigCmp(x, lo) >= 0 THEN [a |-> x, f |-> f]
    ELSE IF BigCmp(BigShiftLeft(x, ShiftChunk), lo) < 0
    THEN ScaleUp(BigShiftLeft(x, ShiftChunk), lo, f + ShiftChunk)
    ELSE ScaleUp(BigMulAdd(x, 2, 0), lo, f + 1)

\* round(float(x) / p * p) as the :.df format sees it: the quotient x / p is
\* rounded to 53 bits by the division, then its exact binary value is
\* rounded to the digits printed
ScaledDigits(x, p) ==
    IF x = <<>> THEN <<>>
    ELSE IF BigCmp(x, BigMulAdd(BigPow2(SignificandBits), p, 0)) >= 0
    THEN \* the quotient is 2^53 or more: a multiple of its ulp, an integer
         LET ulp == FloatUlp(x, p) \div p
         IN  BigMulAdd(BigMulAdd(RoundedQuotient(x, p * ulp), ulp, 0), p, 0)
    ELSE LET s == ScaleUp(x, BigMulAdd(BigPow2(SignificandBits - 1), p, 0), 0)
             k == RoundedQuotient(s.a, p)
         IN  RoundedShift(BigMulAdd(k, p, 0), s.f, FALSE)

BigToStr(a) == [i \in 1..Len(a) |-> DigitSeq[a[i] + 1]]

\* FormatScaled without the division by 10 ** decimal_places
FormatScaled_NoDivision(clean_value, decimal_places) ==
    PadLeft(BigToStr(FloatOfInt(BigOfDigits(clean_value))), 1) \o <<".">>
    \o [i \in 1..decimal_places |-> "0"]

\* f"{float(clean_value) / 10 ** decimal_places:.{decimal_places}f}"
FormatScaled(clean_value, decimal_places) ==
    LET p == Pow10(decimal_places)
        m == BigToStr(ScaledDigits(FloatOfInt(BigOfDigits(clean_value)), p))
        w == PadLeft(m, decimal_places + 1)
    IN  SubSeq(w, 1, Len(w) - decimal_places) \o <<".">>
        \o SubSeq(w, Len(w) - decimal_places + 1, Len(w))

\* format_numeric_field without the return of a value that holds no digit
format_numeric_field_NoDigitGuard(value, picture) ==
    IF value = <<>> \/ picture = <<>> THEN value
    ELSE
    LET clean_value    == DigitsOf(value)
        decimal_part   == From(picture, Find(picture, "V") + 1)
        decimal_places == Count(decimal_part, "9")
    IN  IF "V" \in Range(picture) /\ decimal_places > 0
        THEN FormatScaled(clean_value, decimal_places)
        ELSE clean_value

format_numeric_field(value, picture) ==
    IF value = <<>> \/ picture = <<>> THEN value
    ELSE
    LET clean_value    == DigitsOf(value)
        decimal_part   == From(picture, Find(picture, "V") + 1)
        decimal_places == Count(decimal_part, "9")
    IN  IF clean_value = <<>> THEN value
        ELSE IF "V" \in Range(picture) /\ decimal_places > 0
        THEN FormatScaled(clean_value, decimal_places)
        ELSE clean_value

----------------------------------------------------------------------------
(* parse_cobol_copybook: the field-definition regular expression           *)
(*   \s*(\d{2})\s+([A-Z0-9-]+)(?:\s+REDEFINES\s+([A-Z0-9-]+))?             *)
(*   (?:\s+PIC\s+([X9V()0-9]+))?\s*\.?      with re.IGNORECASE             *)
(* Every part after the name is optional, so the greedy runs below are the *)
(* match the backtracking engine returns.                                  *)

\* [A-Z0-9-] under re.IGNORECASE
NameChars == Range(UpperSeq) \cup Range(LowerSeq) \cup Range(DigitSeq) \cup {"-"}

\* a picture class that also takes the sign and alphabetic symbols
PictureChars_WithSign ==
    {"X", "x", "V", "v", "(", ")", "S", "s", "A", "a"} \cup Range(DigitSeq)

\* [X9V()0-9] under re.IGNORECASE
PictureChars == {"X", "x", "V", "v", "(", ")"} \cup Range(DigitSeq)

\* a keyword at the 1-based position i, compared without case
KeywordAt(s, i, kw) ==
    /\ i + Len(kw) - 1 <= Len(s)
    /\ Upper(SubSeq(s, i, i + Len(kw) - 1)) = kw

\* \s+ kw \s+ (run of cs): the captured run and the position after it, from
\* the position i; ok is FALSE when the optional group does not match
OptionalClause(s, i, kw, cs) ==
    LET a == RunEnd(s, i, WhiteSpace)
        b == a + Len(kw)
        c == RunEnd(s, b, WhiteSpace)
        d == RunEnd(s, c, cs)
    IN  IF a > i /\ KeywordAt(s, a, kw) /\ c > b /\ d > c
        THEN [ok |-> TRUE, text |-> SubSeq(s, c, d - 1), next |-> d]
        ELSE [ok |-> FALSE, text |-> <<>>, next |-> i]

\* re.match(...) on a stripped line: groups 1 to 4, with None as <<>>
field_match(s) ==
    LET p0 == RunEnd(s, 1, WhiteSpace)
        p1 == p0 + 2
        p2 == RunEnd(s, p1, WhiteSpace)
        p3 == RunEnd(s, p2, NameChars)
        matched == /\ p1 - 1 <= Len(s)
                   /\ IsDigit(s[p0]) /\ IsDigit(s[p0 + 1])
                   /\ p2 > p1
                   /\ p3 > p2
        red == OptionalClause(s, p3,
                              <<"R", "E", "D", "E", "F", "I", "N", "E", "S">>,
                              NameChars)
        pic == OptionalClause(s, red.next, <<"P", "I", "C">>, PictureChars)
    IN  IF matched
        THEN [matched |-> TRUE,
              level |-> ParseInt(SubSeq(s, p0, p0 + 1)),
              name |-> SubSeq(s, p2, p3 - 1),
              redefines_target |-> red.text,
              picture |-> pic.text]
        ELSE [matched |-> FALSE, level |-> 0, name |-> <<>>,
              redefines_target |-> <<>>, picture |-> <<>>]

\* the comment / empty line test, on the stripped line
IsSkippedLine(s) ==
    \/ s = <<>>
    \/ StartsWithAt(s, 1, <<"*">>)
    \/ StartsWithAt(s, 1, <<" ", " ", " ", " ", " ", " ", "*">>)

\* CobolField(...)
CobolField(level, name, picture, start_pos, length, field_type) ==
    [level |-> level, name |-> name, picture |-> picture,
     start_pos |-> start_pos, length |-> length, field_type |-> field_type]

\* d[k] = v on an insertion-ordered dict kept as a sequence of <<key, value>>
DictSet(d, k, v) ==
    IF \E i \in DOMAIN d : d[i][1] = k
    THEN [i \in DOMAIN d |-> IF d[i][1] = k THEN <<k, v>> ELSE d[i]]
    ELSE Append(d, <<k, v>>)

DictKeys(d) == [i \in DOMAIN d |-> d[i][1]]

DictHas(d, k) == \E i \in DOMAIN d : d[i][1] = k

\* d.get(k, default)
DictGet(d, k, default) ==
    IF DictHas(d, k) THEN d[CHOOSE i \in DOMAIN d : d[i][1] = k][2] ELSE default

\* the start position the code gives a field of this level
FieldStartPos(level, position) == IF level = 2 THEN 1 ELSE position

\* NextPosition with a cursor that advances one byte too far
NextPosition_OffByOne(level, picture, position) ==
    LET base == IF level = 2 THEN 1 ELSE position
    IN  IF picture # <<>> /\ level >= 5
        THEN base + parse_picture_clause(picture)[1] + 1
        ELSE base

\* NextPosition without the reset of the cursor on a level-02 line
NextPosition_NoReset(level, picture, position) ==
    IF picture # <<>> /\ level >= 5
    THEN position + parse_picture_clause(picture)[1]
    ELSE position

\* NextPosition with a reset of the cursor on level-01 lines too
NextPosition_ResetOnLevel01(level, picture, position) ==
    LET base == IF level \in {1, 2} THEN 1 ELSE position
    IN  IF picture # <<>> /\ level >= 5
        THEN base + parse_picture_clause(picture)[1]
        ELSE base

\* the cursor after a field line
NextPosition(level, picture, position) ==
    LET base == IF level = 2 THEN 1 ELSE position
    IN  IF picture # <<>> /\ level >= 5
        THEN base + parse_picture_clause(picture)[1]
        ELSE base

\* the field appended for a matched field line
FieldOf(m, position) ==
    IF m.picture # <<>>
    THEN CobolField(m.level, m.name, m.picture,
                    FieldStartPos(m.level, position),
                    parse_picture_clause(m.picture)[1],
                    parse_picture_clause(m.picture)[2])
    ELSE CobolField(m.level, m.name, <<>>,
                    FieldStartPos(m.level, position), 0, "group")

\* the second pass: the "<group>: <n> bytes" lines of the structure report
RECURSIVE GroupReport(_, _, _, _)
GroupReport(fs, i, current_group, group_max_pos) ==
    IF i > Len(fs)
    THEN IF current_group # <<>> THEN <<<<current_group, group_max_pos>>>>
         ELSE <<>>
    ELSE IF fs[i].level = 2
    THEN (IF current_group # <<>> THEN <<<<current_group, group_max_pos>>>>
          ELSE <<>>)
         \o GroupReport(fs, i + 1, fs[i].name, 0)
    ELSE IF fs[i].picture # <<>> /\ fs[i].length > 0
    THEN LET field_end == fs[i].start_pos + fs[i].length - 1
         IN  GroupReport(fs, i + 1, current_group,
                         IF field_end > group_max_pos THEN field_end
                         ELSE group_max_pos)
    ELSE GroupReport(fs, i + 1, current_group, group_max_pos)

----------------------------------------------------------------------------
(* parse_data_file: grouping the fields by record type                     *)

\* GroupFields that opens a record type on level 02 only
RECURSIVE GroupFields_Level02Only(_, _, _, _)
GroupFields_Level02Only(fs, i, current_group, rts) ==
    IF i > Len(fs) THEN rts
    ELSE IF fs[i].level = 2
    THEN GroupFields_Level02Only(fs, i + 1, fs[i].name,
                                 DictSet(rts, fs[i].name, <<>>))
    ELSE IF current_group # <<>> /\ fs[i].picture # <<>>
    THEN GroupFields_Level02Only(
             fs, i + 1, current_group,
             DictSet(rts, current_group,
                     Append(DictGet(rts, current_group, <<>>), fs[i])))
    ELSE GroupFields_Level02Only(fs, i + 1, current_group, rts)

\* record_types after the fields fs[i..], as an insertion-ordered dict
RECURSIVE GroupFields(_, _, _, _)
GroupFields(fs, i, current_group, rts) ==
    IF i > Len(fs) THEN rts
    ELSE IF fs[i].level \in {1, 2}
    THEN GroupFields(fs, i + 1, fs[i].name, DictSet(rts, fs[i].name, <<>>))
    ELSE IF current_group # <<>> /\ fs[i].picture # <<>>
    THEN GroupFields(fs, i + 1, current_group,
                     DictSet(rts, current_group,
                             Append(DictGet(rts, current_group, <<>>), fs[i])))
    ELSE GroupFields(fs, i + 1, current_group, rts)

\* [f for f in fields if f.picture is not None]
RECURSIVE ElementaryFields(_)
ElementaryFields(fs) ==
    IF fs = <<>> THEN <<>>
    ELSE (IF fs[1].picture # <<>> THEN <<fs[1]>> ELSE <<>>)
         \o ElementaryFields(Tail(fs))

DEFAULT_RECORD ==
    <<"D", "E", "F", "A", "U", "L", "T", "_", "R", "E", "C", "O", "R", "D">>

BuildRecordTypes(fs) ==
    LET grouped == GroupFields(fs, 1, <<>>, <<>>)
    IN  IF grouped # <<>> THEN grouped
        ELSE IF ElementaryFields(fs) # <<>>
        THEN <<<<DEFAULT_RECORD, ElementaryFields(fs)>>>>
        ELSE <<>>

----------------------------------------------------------------------------
(* detect_record_type                                                      *)

UNKNOWN == <<"U", "N", "K", "N", "O", "W", "N">>

UGEC_CAB_RECAUDAC == <<"U", "G", "E", "C", "-", "C", "A", "B", "-",
                       "R", "E", "C", "A", "U", "D", "A", "C">>
UGEC_DET_RECAUDAC == <<"U", "G", "E", "C", "-", "D", "E", "T", "-",
                       "R", "E", "C", "A", "U", "D", "A", "C">>
UGEC_TOT_RECAUDAC == <<"U", "G", "E", "C", "-", "T", "O", "T", "-",
                       "R", "E", "C", "A", "U", "D", "A", "C">>

\* type_patterns with the detail and total entries exchanged
type_patterns_Swapped(first_char) ==
    CASE first_char = "1" -> UGEC_CAB_RECAUDAC
      [] first_char = "2" -> UGEC_TOT_RECAUDAC
      [] first_char = "9" -> UGEC_DET_RECAUDAC
      [] OTHER -> <<>>

\* type_patterns.get(first_char), with None as <<>>
type_patterns(first_char) ==
    CASE first_char = "1" -> UGEC_CAB_RECAUDAC
      [] first_char = "2" -> UGEC_DET_RECAUDAC
      [] first_char = "9" -> UGEC_TOT_RECAUDAC
      [] OTHER -> <<>>

\* max((f.start_pos + f.length - 1) for f in fields), fields not empty
MaxEndPos(fs) ==
    LET ends == {fs[i].start_pos + fs[i].length - 1 : i \in DOMAIN fs}
    IN  CHOOSE m \in ends : \A e \in ends : e <= m

Abs(n) == IF n < 0 THEN -n ELSE n

\* the score given to a record type with fields
LengthScore(line_length, fs) == 1000 - Abs(line_length - MaxEndPos(fs))

\* the initial best_score of the length heuristic
InitialBestScore == 0

\* the for loop of the length heuristic, from the i-th record type on
RECURSIVE BestMatch(_, _, _, _, _)
BestMatch(rts, i, line_length, best_match, best_score) ==
    IF i > Len(rts) THEN best_match
    ELSE IF rts[i][2] # <<>>
            /\ LengthScore(line_length, rts[i][2]) > best_score
    THEN BestMatch(rts, i + 1, line_length, rts[i][1],
                   LengthScore(line_length, rts[i][2]))
    ELSE BestMatch(rts, i + 1, line_length, best_match, best_score)

\* list(record_types.keys())[0] raises IndexError on an empty dict
detect_raises(ln, rts) == ln # <<>> /\ rts = <<>>

\* the result when the first character selects a record type, else <<>>
PatternMatch(ln, rts) ==
    LET detected_type == type_patterns(ln[1])
    IN  IF detected_type # <<>> /\ DictHas(rts, detected_type)
        THEN detected_type ELSE <<>>

\* detect_record_type(line, record_types), where it does not raise
detect_record_type(ln, rts) ==
    IF ln = <<>> THEN UNKNOWN
    ELSE IF Len(rts) = 1 THEN rts[1][1]
    ELSE IF PatternMatch(ln, rts) # <<>> THEN PatternMatch(ln, rts)
    ELSE LET best_match == BestMatch(rts, 1, Len(RStrip(ln)), UNKNOWN,
                                     InitialBestScore)
         IN  IF best_match # UNKNOWN THEN best_match ELSE rts[1][1]

----------------------------------------------------------------------------
(* export_to_csv                                                           *)

RECORD_TYPE == <<"R", "E", "C", "O", "R", "D", "_", "T", "Y", "P", "E">>
RECORD_NUMBER ==
    <<"R", "E", "C", "O", "R", "D", "_", "N", "U", "M", "B", "E", "R">>

\* AllFields that adds a column for every field, whatever its name
RECURSIVE AllFields_EveryField(_, _, _, _)
AllFields_EveryField(rts, i, j, acc) ==
    IF i > Len(rts) THEN acc
    ELSE IF j > Len(rts[i][2]) THEN AllFields_EveryField(rts, i + 1, 1, acc)
    ELSE AllFields_EveryField(rts, i, j + 1,
                              IF rts[i][2][j].picture # <<>>
                              THEN Append(acc, <<rts[i][2][j].name,
                                                 rts[i][2][j]>>)
                              ELSE acc)

\* all_fields: one key per field name, in first-insertion order
RECURSIVE AllFields(_, _, _, _)
AllFields(rts, i, j, acc) ==
    IF i > Len(rts) THEN acc
    ELSE IF j > Len(rts[i][2]) THEN AllFields(rts, i + 1, 1, acc)
    ELSE AllFields(rts, i, j + 1,
                   IF rts[i][2][j].picture # <<>>
                   THEN DictSet(acc, rts[i][2][j].name, rts[i][2][j])
                   ELSE acc)

HeaderRow(rts) ==
    <<RECORD_TYPE, RECORD_NUMBER>> \o DictKeys(AllFields(rts, 1, 1, <<>>))

\* Slice with an inclusive end
Slice_Inclusive(s, a, b) ==
    LET hi == IF b + 1 < Len(s) THEN b + 1 ELSE Len(s)
    IN  IF a >= hi THEN <<>> ELSE SubSeq(s, a + 1, hi)

\* s[a:b] of Python for 0 <= a
Slice(s, a, b) ==
    LET hi == IF b < Len(s) THEN b ELSE Len(s)
    IN  IF a >= hi THEN <<>> ELSE SubSeq(s, a + 1, hi)

\* FieldInLine that skips a field the line cuts short
FieldInLine_WholeField(ln, f) ==
    f.picture # <<>> /\ f.start_pos + f.length - 1 <= Len(ln)

\* whether the loop decodes the field for this line
FieldInLine(ln, f) == f.picture # <<>> /\ f.start_pos <= Len(ln)

\* RawValue without the conversion of start_pos to a 0-based offset
RawValue_OneBased(ln, f) ==
    LET start_pos == f.start_pos
        end_pos   == start_pos + f.length
    IN  Strip(Slice(ln, start_pos, end_pos))

\* line[start_pos:end_pos].strip()
RawValue(ln, f) ==
    LET start_pos == f.start_pos - 1
        end_pos   == start_pos + f.length
    IN  Strip(Slice(ln, start_pos, end_pos))

\* whether the value goes through format_numeric_field
IsScaled(f) == f.field_type = "numeric" /\ "V" \in Range(f.picture)

FieldValue(ln, f) ==
    IF IsScaled(f) THEN format_numeric_field(RawValue(ln, f), f.picture)
    ELSE RawValue(ln, f)

\* the fields the loop decodes, in order, with the value before and after
\* the numeric formatting
RECURSIVE DecodeFields(_, _, _)
DecodeFields(ln, field_list, i) ==
    IF i > Len(field_list) THEN <<>>
    ELSE (IF FieldInLine(ln, field_list[i])
          THEN <<[index |-> i, name |-> field_list[i].name,
                  raw |-> RawValue(ln, field_list[i]),
                  value |-> FieldValue(ln, field_list[i])]>>
          ELSE <<>>)
         \o DecodeFields(ln, field_list, i + 1)

\* FieldValues that keeps the first value stored under a name
RECURSIVE FieldValues_FirstWins(_, _, _)
FieldValues_FirstWins(dec, i, acc) ==
    IF i > Len(dec) THEN acc
    ELSE FieldValues_FirstWins(dec, i + 1,
                               IF DictHas(acc, dec[i].name) THEN acc
                               ELSE DictSet(acc, dec[i].name, dec[i].value))

\* field_values after the loop
RECURSIVE FieldValues(_, _, _)
FieldValues(dec, i, acc) ==
    IF i > Len(dec) THEN acc
    ELSE FieldValues(dec, i + 1, DictSet(acc, dec[i].name, dec[i].value))

\* the cells of a row after RECORD_TYPE and RECORD_NUMBER
RowCells(hdr, field_values) ==
    [k \in 1..(Len(hdr) - 2) |-> DictGet(field_values, hdr[k + 2], <<>>)]

----------------------------------------------------------------------------
(* The copybook parser as one step per line of the file.                   *)

\* the loop variables before the first line
ParserStart ==
    [fields |-> <<>>, current_position |-> 1, current_group_start |-> 1,
     redefines_groups |-> <<>>]

\* ParseStep that looks for a field definition after the comment marker,
\* without the test for comment lines
ParseStep_CommentedField(st, raw_line) ==
    LET ln == LStripSet(Strip(raw_line), WhiteSpace \cup {"*"})
        m  == field_match(ln)
    IN  IF ~m.matched THEN st
        ELSE [fields |-> Append(st.fields, FieldOf(m, st.current_position)),
              current_position |->
                  NextPosition(m.level, m.picture, st.current_position),
              current_group_start |->
                  IF m.level = 2 THEN 1 ELSE st.current_group_start,
              redefines_groups |->
                  IF m.level = 2 /\ m.redefines_target # <<>>
                  THEN DictSet(st.redefines_groups, m.name, m.redefines_target)
                  ELSE st.redefines_groups]

\* ParseStep without the `if field_match:` test
ParseStep_NoMatchTest(st, raw_line) ==
    LET ln == Strip(raw_line)
        m  == field_match(ln)
    IN  IF IsSkippedLine(ln) THEN st
        ELSE [fields |-> Append(st.fields, FieldOf(m, st.current_position)),
              current_position |->
                  NextPosition(m.level, m.picture, st.current_position),
              current_group_start |->
                  IF m.level = 2 THEN 1 ELSE st.current_group_start,
              redefines_groups |->
                  IF m.level = 2 /\ m.redefines_target # <<>>
                  THEN DictSet(st.redefines_groups, m.name, m.redefines_target)
                  ELSE st.redefines_groups]

\* one iteration of `for line in lines` on the loop variables st
ParseStep(st, raw_line) ==
    LET ln == Strip(raw_line)
        m  == field_match(ln)
    IN  IF IsSkippedLine(ln) \/ ~m.matched THEN st
        ELSE [fields |-> Append(st.fields, FieldOf(m, st.current_position)),
              current_position |->
                  NextPosition(m.level, m.picture, st.current_position),
              current_group_start |->
                  IF m.level = 2 THEN 1 ELSE st.current_group_start,
              redefines_groups |->
                  IF m.level = 2 /\ m.redefines_target # <<>>
                  THEN DictSet(st.redefines_groups, m.name, m.redefines_target)
                  ELSE st.redefines_groups]

\* the loop over all the lines
RECURSIVE ParseLines(_, _, _)
ParseLines(lines, i, st) ==
    IF i > Len(lines) THEN st
    ELSE ParseLines(lines, i + 1, ParseStep(st, lines[i]))

\* parse_cobol_copybook on a readable file
parse_cobol_copybook(lines) == ParseLines(lines, 1, ParserStart).fields

----------------------------------------------------------------------------
(* Inputs: copybook lines, copybooks, data lines, pictures, values.        *)

\* 02 REC.\n
L_REC ==
    <<"0", "2", " ", "R", "E", "C", ".", "\n">>

\* 02 ALT REDEFINES REC.\n
L_ALT ==
    <<"0", "2", " ", "A", "L", "T", " ", "R", "E", "D", "E", "F", "I", "N",
      "E", "S", " ", "R", "E", "C", ".", "\n">>

\*    05 NAME PIC X(5).\n
L_NAME ==
    <<" ", " ", " ", "0", "5", " ", "N", "A", "M", "E", " ", "P", "I", "C",
      " ", "X", "(", "5", ")", ".", "\n">>

\*    05 AMT PIC 9(4)V99.\n
L_AMT ==
    <<" ", " ", " ", "0", "5", " ", "A", "M", "T", " ", "P", "I", "C", " ",
      "9", "(", "4", ")", "V", "9", "9", ".", "\n">>

\*    05 amt pic 9(4)v99.\n
L_AMT_LOWER ==
    <<" ", " ", " ", "0", "5", " ", "a", "m", "t", " ", "p", "i", "c", " ",
      "9", "(", "4", ")", "v", "9", "9", ".", "\n">>

\*    05 GRP.\n
L_GRP ==
    <<" ", " ", " ", "0", "5", " ", "G", "R", "P", ".", "\n">>

\*       * comment\n
L_COMMENT ==
    <<" ", " ", " ", " ", " ", " ", "*", " ", "c", "o", "m", "m", "e", "n",
      "t", "\n">>

\* \n
L_BLANK ==
    <<"\n">>

\* COPY UGECCUOT.\n
L_COPY ==
    <<"C", "O", "P", "Y", " ", "U", "G", "E", "C", "C", "U", "O", "T", ".",
      "\n">>

\* 005 BAD PIC X(2).\n
L_BAD ==
    <<"0", "0", "5", " ", "B", "A", "D", " ", "P", "I", "C", " ", "X", "(",
      "2", ")", ".", "\n">>

\*       * 05 OLD PIC X(3).\n
L_OLD ==
    <<" ", " ", " ", " ", " ", " ", "*", " ", "0", "5", " ", "O", "L", "D",
      " ", "P", "I", "C", " ", "X", "(", "3", ")", ".", "\n">>

\* 01 ROOT.\n
L_ROOT ==
    <<"0", "1", " ", "R", "O", "O", "T", ".", "\n">>

\* 01 TRL.\n
L_TRL ==
    <<"0", "1", " ", "T", "R", "L", ".", "\n">>

\*    03 K3 PIC X(2).\n
L_K03 ==
    <<" ", " ", " ", "0", "3", " ", "K", "3", " ", "P", "I", "C", " ", "X",
      "(", "2", ")", ".", "\n">>

\*    04 K4 PIC 99.\n
L_K04 ==
    <<" ", " ", " ", "0", "4", " ", "K", "4", " ", "P", "I", "C", " ", "9",
      "9", ".", "\n">>

\*    05 SGN PIC S9(4).\n
L_SGN ==
    <<" ", " ", " ", "0", "5", " ", "S", "G", "N", " ", "P", "I", "C", " ",
      "S", "9", "(", "4", ")", ".", "\n">>

\*    05 ALPHA PIC A(3).\n
L_ALPHA ==
    <<" ", " ", " ", "0", "5", " ", "A", "L", "P", "H", "A", " ", "P", "I",
      "C", " ", "A", "(", "3", ")", ".", "\n">>

\* 05 F1 PIC XXX.\n
L_F1 ==
    <<"0", "5", " ", "F", "1", " ", "P", "I", "C", " ", "X", "X", "X", ".",
      "\n">>

\* 05 F2 PIC X(5).\n
L_F2 ==
    <<"0", "5", " ", "F", "2", " ", "P", "I", "C", " ", "X", "(", "5", ")",
      ".", "\n">>

\* 05 F3 PIC 99.\n
L_F3 ==
    <<"0", "5", " ", "F", "3", " ", "P", "I", "C", " ", "9", "9", ".", "\n">>

\* 05 LIT PIC 999V99.\n
L_LIT ==
    <<"0", "5", " ", "L", "I", "T", " ", "P", "I", "C", " ", "9", "9", "9",
      "V", "9", "9", ".", "\n">>

\* 05 REP PIC 9(7)V9(2).\n
L_REP ==
    <<"0", "5", " ", "R", "E", "P", " ", "P", "I", "C", " ", "9", "(", "7",
      ")", "V", "9", "(", "2", ")", ".", "\n">>

\* 05 FILLER PIC X(2).\n
L_FILLER ==
    <<"0", "5", " ", "F", "I", "L", "L", "E", "R", " ", "P", "I", "C", " ",
      "X", "(", "2", ")", ".", "\n">>

\* 02 UGEC-CAB-RECAUDAC.\n
L_CAB ==
    <<"0", "2", " ", "U", "G", "E", "C", "-", "C", "A", "B", "-", "R", "E",
      "C", "A", "U", "D", "A", "C", ".", "\n">>

\* 02 UGEC-DET-RECAUDAC.\n
L_DET ==
    <<"0", "2", " ", "U", "G", "E", "C", "-", "D", "E", "T", "-", "R", "E",
      "C", "A", "U", "D", "A", "C", ".", "\n">>

\* 02 UGEC-TOT-RECAUDAC.\n
L_TOT ==
    <<"0", "2", " ", "U", "G", "E", "C", "-", "T", "O", "T", "-", "R", "E",
      "C", "A", "U", "D", "A", "C", ".", "\n">>

\* 02 A.\n
L_A ==
    <<"0", "2", " ", "A", ".", "\n">>

\* 02 B.\n
L_B ==
    <<"0", "2", " ", "B", ".", "\n">>

\* 05 W3 PIC X(3).\n
L_W3 ==
    <<"0", "5", " ", "W", "3", " ", "P", "I", "C", " ", "X", "(", "3", ")",
      ".", "\n">>

\* 05 W8 PIC X(8).\n
L_W8 ==
    <<"0", "5", " ", "W", "8", " ", "P", "I", "C", " ", "X", "(", "8", ")",
      ".", "\n">>

\* 05 W1200 PIC X(1200).\n
L_W1200 ==
    <<"0", "5", " ", "W", "1", "2", "0", "0", " ", "P", "I", "C", " ", "X",
      "(", "1", "2", "0", "0", ")", ".", "\n">>

\* 05 W2500 PIC X(2500).\n
L_W2500 ==
    <<"0", "5", " ", "W", "2", "5", "0", "0", " ", "P", "I", "C", " ", "X",
      "(", "2", "5", "0", "0", ")", ".", "\n">>

\* ABCDE0012345\n
D_FULL ==
    <<"A", "B", "C", "D", "E", "0", "0", "1", "2", "3", "4", "5", "\n">>

\* ABCDE00\n
D_CUT ==
    <<"A", "B", "C", "D", "E", "0", "0", "\n">>

\*  AB  (the last line of a file, without newline)
D_SHORT ==
    <<" ", "A", "B", " ">>

\*   \n
D_BLANK ==
    <<" ", " ", "\n">>

\*  BC  001200  \n
D_PAD ==
    <<" ", "B", "C", " ", " ", "0", "0", "1", "2", "0", "0", " ", " ", "\n">>

\* \n (an empty line)
D_EMPTY ==
    <<"\n">>

\* 1BCDE0012345\n
D_ONE ==
    <<"1", "B", "C", "D", "E", "0", "0", "1", "2", "3", "4", "5", "\n">>

MaxCpyLines == 3
MaxDataLines == 1
MaxLayouts == 2
MaxIntDigits == 7
MaxFracDigits == 2
MaxPicLen == 3

\* all the sequences of 1 to n elements of S
SeqsUpTo(S, n) == UNION {[1..k -> S] : k \in 1..n}

\* the concatenation of a sequence of sequences
RECURSIVE Flatten(_)
Flatten(ss) == IF ss = <<>> THEN <<>> ELSE ss[1] \o Flatten(Tail(ss))

CopybookLinePool == {L_REC, L_ALT, L_NAME, L_AMT, L_GRP}

ScenarioCopybooks ==
    { <<L_REC, L_F1, L_F2, L_F3>>,
      <<L_REC, L_NAME, L_ALT, L_AMT>>,
      <<L_REC, L_LIT, L_REP>>,
      <<L_REC, L_FILLER, L_NAME, L_FILLER>>,
      <<L_COMMENT, L_REC, L_BLANK, L_NAME, L_COPY, L_AMT>>,
      <<L_CAB, L_NAME, L_DET, L_AMT, L_W8>>,
      <<L_A, L_W2500, L_B, L_W1200>>,
      <<L_REC, L_GRP, L_F1, L_GRP, L_F3>>,
      <<L_REC, L_NAME, L_AMT_LOWER>>,
      <<L_REC, L_NAME, L_COPY, L_BAD, L_AMT>>,
      <<L_ROOT, L_REC, L_NAME, L_ALT, L_AMT>>,
      <<L_REC, L_NAME, L_K03, L_TRL, L_K04, L_AMT>>,
      <<L_REC, L_NAME, L_SGN, L_ALPHA, L_AMT>> }

\* the blank and comment lines of the copybook files
NoiseLines == {L_COMMENT, L_BLANK, L_OLD}

\* the sequence s with the element x inserted after its first i elements
InsertAt(s, i, x) == SubSeq(s, 1, i) \o <<x>> \o SubSeq(s, i + 1, Len(s))

\* copybooks with a blank or comment line at every position
NoisyCopybooks ==
    {InsertAt(base, i, x) :
        base \in {<<L_REC, L_NAME, L_ALT, L_AMT>>, <<L_REC, L_F1, L_F2, L_F3>>},
        i \in 0..4, x \in NoiseLines}

\* the copybook files of the runs
Copybooks ==
    ScenarioCopybooks \cup NoisyCopybooks
    \cup SeqsUpTo(CopybookLinePool, MaxCpyLines)

\* lines[:10] of the preview loop
PreviewLimit == 10

\* a file whose first data line comes after the lines of the preview
PreviewBlankFile == [i \in 1..PreviewLimit |-> D_EMPTY] \o <<D_FULL>>

DataLinePool == {D_FULL, D_CUT, D_SHORT, D_BLANK}

ScenarioDataFiles ==
    { <<>>,
      <<D_FULL, D_BLANK, D_ONE>>,
      <<D_PAD, D_SHORT>>,
      <<D_ONE, D_CUT>>,
      <<D_EMPTY, D_FULL, D_BLANK, D_CUT>>,
      PreviewBlankFile }

\* the data files of the runs
DataFiles == ScenarioDataFiles \cup SeqsUpTo(DataLinePool, MaxDataLines)

Nines(n) == [i \in 1..n |-> "9"]

\* PICTURE clauses: 9..9V9..9, 9(a)V9(b), 9(a)V9..9, 9..9, 9(a), X..X, X(a),
\* and every short string over the characters of a clause
PictureInputs ==
    {Nines(a) \o <<"V">> \o Nines(b) :
        a \in 1..MaxIntDigits, b \in 1..MaxFracDigits}
    \cup {<<"9", "(">> \o IntToStr(a) \o <<")", "V", "9", "(">> \o IntToStr(b)
            \o <<")">> : a \in 1..MaxIntDigits, b \in 1..MaxFracDigits}
    \cup {<<"9", "(">> \o IntToStr(a) \o <<")", "V">> \o Nines(b) :
            a \in 1..MaxIntDigits, b \in 1..MaxFracDigits}
    \cup {Nines(a) : a \in 1..MaxIntDigits}
    \cup {<<"9", "(">> \o IntToStr(a) \o <<")">> : a \in 1..MaxIntDigits}
    \cup {[i \in 1..a |-> "X"] : a \in 1..MaxIntDigits}
    \cup {<<"X", "(">> \o IntToStr(a) \o <<")">> : a \in 1..MaxIntDigits}
    \cup {<<"X", "(", "3", "0", ")">>, <<"9", "(", "1", "0", ")">>,
          <<"9", "(", "1", "4", ")", "V", "9", "9">>}
    \cup SeqsUpTo({"9", "X", "V", "v", "(", ")", "2"}, MaxPicLen)

\* two 16-digit values of a PICTURE 9(14)V99 field
V_LONG == <<"9", "0", "2", "9", "4", "5", "9", "4", "2", "5", "6", "5", "5",
            "1", "5", "4">>

V_LONG_ROUND == <<"1", "0", "0", "0", "0", "0", "0", "0", "0", "0", "0", "0",
                  "0", "0", "0", "0">>

\* field values handed to format_numeric_field
ValueInputs ==
    { <<>>,
      <<"0", "0", "0", "0", "1", "2", "3", "4", "5">>,
      <<"0", "0", "1", "2", "3", "4">>,
      <<"7">>,
      V_LONG,
      V_LONG_ROUND,
      <<"1", "2", "A", "4", "5">>,
      <<"-", "1", "2">>,
      <<"1", ".", "5">>,
      <<"A", "B", "C">> }

\* the 02 lines and the field lines the classifier's layouts are built from
LayoutHeads == {L_A, L_B, L_CAB, L_DET, L_TOT}

LayoutBodies == {<<>>, <<L_W3>>, <<L_W3, L_W8>>, <<L_W1200>>, <<L_W2500>>}

LayoutBlocks == {<<h>> \o b : h \in LayoutHeads, b \in LayoutBodies}

\* the record_types handed to detect_record_type: those parse_data_file
\* builds from copybooks of 1 to n level-02 groups
ClassifierLayouts(n) ==
    {BuildRecordTypes(parse_cobol_copybook(Flatten(bs))) :
        bs \in SeqsUpTo(LayoutBlocks, n)}

\* the lines handed to detect_record_type
ClassifierLines ==
    { <<>>, <<"1">>, <<"2", "x", "x">>, <<"9", "9">>, <<"a", "b">>,
      <<"a", "b", "c", " ", " ">>, <<" ", " ">>,
      <<"a", "b", "c", "d", "e", "f", "g", "h">>,
      <<"1", "b", "c", "d", "e", "f", "g", "h">> }

----------------------------------------------------------------------------
(* parse_data_file and export_to_csv on the lines of the data file         *)

\* line.rstrip('\n\r')
RStripNewline(s) == RStripSet(s, {"\n", "\r"})

\* the preview loop of parse_data_file calls detect_record_type on every
\* non-empty line of the first ten; its IndexError ends parse_data_file
\* with None
PreviewRaises(lines, rts) ==
    \E i \in DOMAIN lines :
        /\ i <= PreviewLimit
        /\ detect_raises(RStripNewline(lines[i]), rts)

\* one iteration of the export loop on the line number n
ExportLineResult(raw_line, n, rts, hdr) ==
    LET ln == RStripNewline(raw_line)
        rt == detect_record_type(ln, rts)
        dec == DecodeFields(ln, DictGet(rts, rt, <<>>), 1)
        none == [skipped |-> FALSE, raised |-> FALSE, line |-> ln,
                 record_type |-> <<>>, decoded |-> <<>>,
                 row |-> [record_type |-> <<>>, record_number |-> n,
                          cells |-> <<>>]]
    IN  IF Strip(ln) = <<>> THEN [none EXCEPT !.skipped = TRUE]
        ELSE IF detect_raises(ln, rts) THEN [none EXCEPT !.raised = TRUE]
        ELSE [none EXCEPT
                 !.record_type = rt,
                 !.decoded = dec,
                 !.row = [record_type |-> rt, record_number |-> n,
                          cells |-> RowCells(hdr,
                                             FieldValues(dec, 1, <<>>))]]

----------------------------------------------------------------------------
(* The run of process_files: copybook, data file, CSV export.              *)

\* Optional values: None is <<>>, a value v is <<v>>
None == <<>>

Some(v) == <<v>>

\* the state of the file readers, of the API client and of the viewer in the
\* runs that do not use them
ReadIdle ==
    /\ cpy_file = None /\ txt_file = None
    /\ enc_idx = 0 /\ attempts = <<>> /\ txt_lines = None
    /\ used_encoding = None /\ parsed_records = None /\ escaped = None

DebtIdle ==
    /\ access_token = None /\ token_expires_at = None /\ now = 0
    /\ response_cache = <<>> /\ credit_number = None /\ retry_count = 0
    /\ response = None /\ result = None /\ gets = 0 /\ posts = 0
    /\ returned = <<>>

ViewerIdle ==
    /\ csv_rows = <<>> /\ total_rows = 0 /\ page_size = 1 /\ current_page = 0
    /\ filtered_indices = None /\ visible_columns = {}
    /\ ui_pc = "idle" /\ ui_local = 0 /\ workers = <<>>

Init ==
    /\ pc = "parse"
    /\ cpy \in Copybooks
    /\ pic_in = <<>> /\ val_in = <<>> /\ pic_out = <<>> /\ fmt_out = <<>>
    /\ cpy_idx = 0 /\ fields = <<>>
    /\ current_position = 1 /\ current_group_start = 1
    /\ redefines_groups = <<>> /\ structure_lengths = <<>>
    /\ all_lines = <<>> /\ record_types = <<>> /\ header = <<>>
    /\ line_num = 0 /\ line = <<>> /\ record_type = <<>> /\ decoded = <<>>
    /\ rows = <<>> /\ records_written = 0
    /\ ReadIdle /\ DebtIdle /\ ViewerIdle

\* open() or readlines() raises: parse_cobol_copybook returns []
CopybookUnreadable ==
    /\ pc = "parse" /\ cpy_idx = 0
    /\ pc' = "done"
    /\ UNCHANGED <<pictureVars, copybookVars, exportVars, classifyVars>>
    /\ UNCHANGED <<readVars, debtVars, viewerVars>>

\* one iteration of the loop over the copybook lines
ParseLine ==
    /\ pc = "parse" /\ cpy_idx < Len(cpy)
    /\ LET st == ParseStep([fields |-> fields,
                            current_position |-> current_position,
                            current_group_start |-> current_group_start,
                            redefines_groups |-> redefines_groups],
                           cpy[cpy_idx + 1])
       IN  /\ fields' = st.fields
           /\ current_position' = st.current_position
           /\ current_group_start' = st.current_group_start
           /\ redefines_groups' = st.redefines_groups
    /\ cpy_idx' = cpy_idx + 1
    /\ UNCHANGED <<pc, cpy, structure_lengths, pictureVars, exportVars,
                   classifyVars>>
    /\ UNCHANGED <<readVars, debtVars, viewerVars>>

\* the second pass, the return, and the `if fields:` of process_files
FinishParse ==
    /\ pc = "parse" /\ cpy_idx = Len(cpy)
    /\ structure_lengths' = GroupReport(fields, 1, <<>>, 0)
    /\ pc' = IF fields # <<>> THEN "confirm_parse" ELSE "done"
    /\ UNCHANGED <<cpy, cpy_idx, fields, current_position,
                   current_group_start, redefines_groups, pictureVars,
                   exportVars, classifyVars>>
    /\ UNCHANGED <<readVars, debtVars, viewerVars>>

\* the user answers no to one of the two confirm() prompts
Decline ==
    /\ pc \in {"confirm_parse", "confirm_export"}
    /\ pc' = "done"
    /\ UNCHANGED <<pictureVars, copybookVars, exportVars, classifyVars>>
    /\ UNCHANGED <<readVars, debtVars, viewerVars>>

\* parse_data_file: read the lines, group the fields, preview
ParseDataFile ==
    /\ pc = "confirm_parse"
    /\ \E f \in DataFiles :
        /\ all_lines' = f
        /\ IF f = <<>>
           THEN /\ pc' = "done"
                /\ record_types' = record_types
           ELSE /\ record_types' = BuildRecordTypes(fields)
                /\ pc' = IF PreviewRaises(f, BuildRecordTypes(fields))
                         THEN "done" ELSE "confirm_export"
    /\ UNCHANGED <<pictureVars, copybookVars, header, line_num, decoded,
                   rows, records_written, line, record_type>>
    /\ UNCHANGED <<readVars, debtVars, viewerVars>>

\* export_to_csv up to the header row
ExportHeader ==
    /\ pc = "confirm_export"
    /\ header' = HeaderRow(record_types)
    /\ pc' = "rows"
    /\ UNCHANGED <<pictureVars, copybookVars, all_lines, line_num, decoded,
                   rows, records_written, classifyVars>>
    /\ UNCHANGED <<readVars, debtVars, viewerVars>>

\* one iteration of the loop over all_lines
ExportLine ==
    /\ pc = "rows" /\ line_num < Len(all_lines)
    /\ LET r == ExportLineResult(all_lines[line_num + 1], line_num + 1,
                                 record_types, header)
       IN  /\ line_num' = line_num + 1
           /\ IF r.skipped
              THEN UNCHANGED <<pc, line, record_type, decoded, rows,
                               records_written>>
              ELSE IF r.raised
              THEN /\ pc' = "done"
                   /\ UNCHANGED <<line, record_type, decoded, rows,
                                  records_written>>
              ELSE /\ line' = r.line
                   /\ record_type' = r.record_type
                   /\ decoded' = r.decoded
                   /\ rows' = Append(rows, r.row)
                   /\ records_written' = records_written + 1
                   /\ UNCHANGED pc
    /\ UNCHANGED <<pictureVars, copybookVars, all_lines, record_types,
                   header>>
    /\ UNCHANGED <<readVars, debtVars, viewerVars>>

\* the loop is over: the file is closed and the statistics are printed
FinishExport ==
    /\ pc = "rows" /\ line_num = Len(all_lines)
    /\ pc' = "done"
    /\ UNCHANGED <<pictureVars, copybookVars, exportVars, classifyVars>>
    /\ UNCHANGED <<readVars, debtVars, viewerVars>>

Next ==
    \/ CopybookUnreadable
    \/ ParseLine
    \/ FinishParse
    \/ Decline
    \/ ParseDataFile
    \/ ExportHeader
    \/ ExportLine
    \/ FinishExport

Spec == Init /\ [][Next]_vars

----------------------------------------------------------------------------
(* parse_picture_clause and format_numeric_field on their own              *)

InitPicture ==
    /\ pc = "picture"
    /\ pic_in \in PictureInputs
    /\ val_in \in ValueInputs
    /\ pic_out = <<>> /\ fmt_out = <<>>
    /\ cpy = <<>> /\ cpy_idx = 0 /\ fields = <<>>
    /\ current_position = 1 /\ current_group_start = 1
    /\ redefines_groups = <<>> /\ structure_lengths = <<>>
    /\ all_lines = <<>> /\ record_types = <<>> /\ header = <<>>
    /\ line_num = 0 /\ line = <<>> /\ record_type = <<>> /\ decoded = <<>>
    /\ rows = <<>> /\ records_written = 0
    /\ ReadIdle /\ DebtIdle /\ ViewerIdle

Interpret ==
    /\ pc = "picture"
    /\ pic_out' = parse_picture_clause(pic_in)
    /\ pc' = "interpreted"
    /\ UNCHANGED <<pic_in, val_in, fmt_out, copybookVars, exportVars,
                   classifyVars>>
    /\ UNCHANGED <<readVars, debtVars, viewerVars>>

Scale ==
    /\ pc = "interpreted"
    /\ fmt_out' = format_numeric_field(val_in, pic_in)
    /\ pc' = "scaled"
    /\ UNCHANGED <<pic_in, val_in, pic_out, copybookVars, exportVars,
                   classifyVars>>
    /\ UNCHANGED <<readVars, debtVars, viewerVars>>

\* format_numeric_field applied again, to its own output
Rescale ==
    /\ pc = "scaled"
    /\ fmt_out' = format_numeric_field(fmt_out, pic_in)
    /\ pc' = "rescaled"
    /\ UNCHANGED <<pic_in, val_in, pic_out, copybookVars, exportVars,
                   classifyVars>>
    /\ UNCHANGED <<readVars, debtVars, viewerVars>>

NextPicture == Interpret \/ Scale \/ Rescale

SpecPicture == InitPicture /\ [][NextPicture]_vars

----------------------------------------------------------------------------
(* detect_record_type on its own                                           *)

InitClassify ==
    /\ pc = "classify"
    /\ record_types \in ClassifierLayouts(MaxLayouts)
    /\ line \in ClassifierLines
    /\ record_type = <<>>
    /\ pic_in = <<>> /\ val_in = <<>> /\ pic_out = <<>> /\ fmt_out = <<>>
    /\ cpy = <<>> /\ cpy_idx = 0 /\ fields = <<>>
    /\ current_position = 1 /\ current_group_start = 1
    /\ redefines_groups = <<>> /\ structure_lengths = <<>>
    /\ all_lines = <<>> /\ header = <<>>
    /\ line_num = 0 /\ decoded = <<>>
    /\ rows = <<>> /\ records_written = 0
    /\ ReadIdle /\ DebtIdle /\ ViewerIdle

Classify ==
    /\ pc = "classify"
    /\ ~detect_raises(line, record_types)
    /\ record_type' = detect_record_type(line, record_types)
    /\ pc' = "classified"
    /\ UNCHANGED <<pictureVars, copybookVars, exportVars, record_types, line>>
    /\ UNCHANGED <<readVars, debtVars, viewerVars>>

NextClassify == Classify

SpecClassify == InitClassify /\ [][NextClassify]_vars

----------------------------------------------------------------------------
(* The reading of the two files: open(), the text decoding of the bytes,   *)
(* and the try/except blocks around them.  A file on disk is the error     *)
(* open() raises for it, if any, and its bytes, line by line; the files    *)
(* hold no carriage return, so that the universal-newline translation of   *)
(* text mode leaves the lines as they are.                                 *)

AsciiPrintable ==
    <<" ", "!", "\"", "#", "$", "%", "&", "'", "(", ")", "*", "+", ",", "-",
      ".", "/", "0", "1", "2", "3", "4", "5", "6", "7", "8", "9", ":", ";",
      "<", "=", ">", "?", "@", "A", "B", "C", "D", "E", "F", "G", "H", "I",
      "J", "K", "L", "M", "N", "O", "P", "Q", "R", "S", "T", "U", "V", "W",
      "X", "Y", "Z", "[", "\\", "]", "^", "_", "U+60", "a", "b", "c", "d", "e",
      "f", "g", "h", "i", "j", "k", "l", "m", "n", "o", "p", "q", "r", "s",
      "t", "u", "v", "w", "x", "y", "z", "{", "|", "}", "~">>

HexDigits ==
    <<"0", "1", "2", "3", "4", "5", "6", "7", "8", "9", "A", "B", "C", "D",
      "E", "F">>

RECURSIVE Hex(_)
Hex(n) ==
    IF n < 16 THEN HexDigits[n + 1]
    ELSE Hex(n \div 16) \o HexDigits[(n % 16) + 1]

\* the character of a code point: itself for printable ASCII (the grave
\* accent excepted), newline and tab, and the name U+<hex> for any other
CharOf(cp) ==
    IF cp >= 32 /\ cp <= 126 THEN AsciiPrintable[cp - 31]
    ELSE IF cp = 10 THEN "\n"
    ELSE IF cp = 9 THEN "\t"
    ELSE "U+" \o Hex(cp)

\* the byte of an ASCII character
ByteOf(c) ==
    IF c = "\n" THEN 10
    ELSE IF c = "\t" THEN 9
    ELSE 31 + (CHOOSE i \in DOMAIN AsciiPrintable : AsciiPrintable[i] = c)

\* text.encode('ascii') of a line
Encode(text) == [i \in DOMAIN text |-> ByteOf(text[i])]

\* the number of bytes of the well-formed UTF-8 sequence at b[i], 0 if the
\* bytes there are not one
Utf8Width(b, i) ==
    LET Cont(k) == i + k <= Len(b) /\ b[i + k] >= 128 /\ b[i + k] <= 191
    IN  IF b[i] < 128 THEN 1
        ELSE IF b[i] >= 194 /\ b[i] <= 223 /\ Cont(1) THEN 2
        ELSE IF /\ b[i] >= 224 /\ b[i] <= 239 /\ Cont(1) /\ Cont(2)
                /\ (b[i] = 224 => b[i + 1] >= 160)
                /\ (b[i] = 237 => b[i + 1] <= 159) THEN 3
        ELSE IF /\ b[i] >= 240 /\ b[i] <= 244 /\ Cont(1) /\ Cont(2) /\ Cont(3)
                /\ (b[i] = 240 => b[i + 1] >= 144)
                /\ (b[i] = 244 => b[i + 1] <= 143) THEN 4
        ELSE 0

Utf8CodePoint(b, i, n) ==
    IF n = 1 THEN b[i]
    ELSE IF n = 2 THEN (b[i] - 192) * 64 + (b[i + 1] - 128)
    ELSE IF n = 3
    THEN (b[i] - 224) * 4096 + (b[i + 1] - 128) * 64 + (b[i + 2] - 128)
    ELSE (b[i] - 240) * 262144 + (b[i + 1] - 128) * 4096
         + (b[i + 2] - 128) * 64 + (b[i + 3] - 128)

\* bytes.decode('utf-8') from the position i: ok is FALSE for a
\* UnicodeDecodeError
RECURSIVE Utf8Decode(_, _)
Utf8Decode(b, i) ==
    IF i > Len(b) THEN [ok |-> TRUE, text |-> <<>>]
    ELSE LET n == Utf8Width(b, i)
         IN  IF n = 0 THEN [ok |-> FALSE, text |-> <<>>]
             ELSE LET rest == Utf8Decode(b, i + n)
                  IN  [ok |-> rest.ok,
                       text |-> <<CharOf(Utf8CodePoint(b, i, n))>> \o rest.text]

\* the code points of the bytes 0x80 to 0x9F in cp1252, 0 where the code
\* page defines none
Cp1252High ==
    <<8364, 0, 8218, 402, 8222, 8230, 8224, 8225, 710, 8240, 352, 8249, 338,
      0, 381, 0, 0, 8216, 8217, 8220, 8221, 8226, 8211, 8212, 732, 8482, 353,
      8250, 339, 0, 382, 376>>

Cp1252CodePoint(byte) ==
    IF byte >= 128 /\ byte <= 159 THEN Cp1252High[byte - 127] ELSE byte

\* bytes.decode(encoding) of one line
DecodeLine(b, encoding) ==
    IF encoding = "utf-8" THEN Utf8Decode(b, 1)
    ELSE IF encoding = "latin-1"
    THEN [ok |-> TRUE, text |-> [i \in DOMAIN b |-> CharOf(b[i])]]
    ELSE IF encoding = "cp1252"
    THEN [ok |-> \A i \in DOMAIN b : Cp1252CodePoint(b[i]) # 0,
          text |-> [i \in DOMAIN b |-> CharOf(Cp1252CodePoint(b[i]))]]
    ELSE [ok |-> \A i \in DOMAIN b : b[i] < 128,
          text |-> [i \in DOMAIN b |-> CharOf(b[i])]]

\* f.readlines() of a file opened with the encoding
ReadLines(bytes, encoding) ==
    [ok |-> \A i \in DOMAIN bytes : DecodeLine(bytes[i], encoding).ok,
     text |-> [i \in DOMAIN bytes |-> DecodeLine(bytes[i], encoding).text]]

\* the exception `with open(...) as f: lines = f.readlines()` raises for the
\* file, None if it raises none
ReadError(file, encoding) ==
    IF file.error # None THEN file.error
    ELSE IF ~ReadLines(file.bytes, encoding).ok
    THEN Some("UnicodeDecodeError")
    ELSE None

\* the exception classes of the runs, all of them subclasses of Exception
ExceptionClasses ==
    {"FileNotFoundError", "PermissionError", "UnicodeDecodeError",
     "IndexError"}

\* an except clause that handles the decode errors only
Handles_DecodeErrorsOnly(clause, exc) == exc = "UnicodeDecodeError"

\* whether `except <clause>` handles the exception
Handles(clause, exc) ==
    IF clause = "Exception" THEN exc \in ExceptionClasses ELSE exc = clause

\* parse_cobol_copybook(cpy_file): the fields returned, the lines read and
\* the exception that leaves the function
ReadCopybookResult(file) ==
    LET raised == ReadError(file, "utf-8")
    IN  IF raised = None
        THEN [fields |-> parse_cobol_copybook(ReadLines(file.bytes,
                                                        "utf-8").text),
              lines |-> ReadLines(file.bytes, "utf-8").text,
              escaped |-> None]
        ELSE IF Handles("Exception", raised[1])
        THEN [fields |-> <<>>, lines |-> <<>>, escaped |-> None]
        ELSE [fields |-> <<>>, lines |-> <<>>, escaped |-> raised]

\* encodings_to_try with Latin-1 before UTF-8
encodings_to_try_Latin1First == <<"latin-1", "utf-8", "cp1252", "ascii">>

encodings_to_try == <<"utf-8", "latin-1", "cp1252", "ascii">>

\* 02 REC / 05 NAME PIC X(5) / 05 AMT PIC 9(4)V99, in ASCII
CpyBytes == <<Encode(L_REC), Encode(L_NAME), Encode(L_AMT)>>

\* a comment line with an e acute, in UTF-8 (C3 A9) and in Latin-1 (E9)
R_COMMENT_UTF8 == <<42, 32, 195, 169, 10>>

R_COMMENT_LATIN1 == <<42, 32, 233, 10>>

\* the copybook files of the runs
RawCopybooks ==
    { [error |-> None, bytes |-> CpyBytes],
      [error |-> None, bytes |-> <<R_COMMENT_UTF8>> \o CpyBytes],
      [error |-> None, bytes |-> <<R_COMMENT_LATIN1>> \o CpyBytes],
      [error |-> None, bytes |-> <<>>],
      [error |-> Some("FileNotFoundError"), bytes |-> <<>>],
      [error |-> Some("PermissionError"), bytes |-> <<>>] }

\* data lines: ASCII; with an e acute in UTF-8; with an e acute in Latin-1;
\* with the byte 0x81, which cp1252 does not define; cut inside a UTF-8
\* sequence
R_ASCII == Encode(D_FULL)

R_UTF8 == <<65, 66, 195, 169, 68, 69, 48, 48, 49, 50, 51, 52, 53, 10>>

R_LATIN1 == <<65, 66, 233, 68, 69, 48, 48, 49, 50, 51, 52, 53, 10>>

R_UNDEFINED == <<65, 66, 129, 68, 69, 48, 48, 49, 50, 51, 52, 53, 10>>

R_CUT == <<65, 66, 67, 68, 195>>

MaxRawLines == 2

RawDataFiles ==
    { [error |-> Some("FileNotFoundError"), bytes |-> <<>>],
      [error |-> Some("PermissionError"), bytes |-> <<>>],
      [error |-> None, bytes |-> <<>>] }
    \cup {[error |-> None, bytes |-> f] :
            f \in SeqsUpTo({R_ASCII, R_UTF8, R_LATIN1, R_UNDEFINED, R_CUT},
                           MaxRawLines)}

InitRead ==
    /\ pc = "read_cpy"
    /\ cpy_file \in RawCopybooks
    /\ txt_file \in RawDataFiles
    /\ enc_idx = 0 /\ attempts = <<>> /\ txt_lines = None
    /\ used_encoding = None /\ parsed_records = None /\ escaped = None
    /\ pic_in = <<>> /\ val_in = <<>> /\ pic_out = <<>> /\ fmt_out = <<>>
    /\ cpy = <<>> /\ cpy_idx = 0 /\ fields = <<>>
    /\ current_position = 1 /\ current_group_start = 1
    /\ redefines_groups = <<>> /\ structure_lengths = <<>>
    /\ all_lines = <<>> /\ record_types = <<>> /\ header = <<>>
    /\ line_num = 0 /\ line = <<>> /\ record_type = <<>> /\ decoded = <<>>
    /\ rows = <<>> /\ records_written = 0
    /\ DebtIdle /\ ViewerIdle

\* fields = parse_cobol_copybook(cpy_file) and the `if fields:` of
\* process_files
ReadCopybook ==
    /\ pc = "read_cpy"
    /\ LET r == ReadCopybookResult(cpy_file)
       IN  /\ cpy' = r.lines
           /\ fields' = r.fields
           /\ escaped' = r.escaped
           /\ pc' = IF r.escaped # None THEN "raised"
                    ELSE IF r.fields # <<>> THEN "decode" ELSE "done"
    /\ UNCHANGED <<cpy_idx, current_position, current_group_start,
                   redefines_groups, structure_lengths, cpy_file, txt_file,
                   enc_idx, attempts, txt_lines, used_encoding,
                   parsed_records, pictureVars, exportVars, classifyVars,
                   debtVars, viewerVars>>

\* one iteration of `for encoding in encodings_to_try`: the open and
\* readlines under the inner try, whose except clause continues the loop on
\* a UnicodeDecodeError; any other exception goes to the except clause of
\* the function, which returns None
TryEncoding ==
    /\ pc = "decode" /\ enc_idx < Len(encodings_to_try)
    /\ LET encoding == encodings_to_try[enc_idx + 1]
           raised   == ReadError(txt_file, encoding)
       IN  /\ attempts' = Append(attempts, encoding)
           /\ enc_idx' = enc_idx + 1
           /\ IF raised = None
              THEN /\ txt_lines' = Some(ReadLines(txt_file.bytes,
                                                  encoding).text)
                   /\ used_encoding' = Some(encoding)
                   /\ pc' = "analyze"
                   /\ UNCHANGED <<parsed_records, escaped>>
              ELSE IF Handles("UnicodeDecodeError", raised[1])
              THEN UNCHANGED <<pc, txt_lines, used_encoding, parsed_records,
                               escaped>>
              ELSE /\ parsed_records' = None
                   /\ escaped' = IF Handles("Exception", raised[1])
                                 THEN None ELSE raised
                   /\ pc' = IF Handles("Exception", raised[1])
                            THEN "returned" ELSE "raised"
                   /\ UNCHANGED <<txt_lines, used_encoding>>
    /\ UNCHANGED <<cpy_file, txt_file, pictureVars, copybookVars, exportVars,
                   classifyVars, debtVars, viewerVars>>

\* the rest of parse_data_file after the loop: the tests of lines, the
\* grouping of the fields, the preview and the return
AnalyzeDataFile ==
    /\ \/ pc = "analyze"
       \/ pc = "decode" /\ enc_idx = Len(encodings_to_try)
    /\ IF txt_lines = None \/ txt_lines[1] = <<>>
       THEN /\ parsed_records' = None
            /\ UNCHANGED <<all_lines, record_types>>
       ELSE /\ all_lines' = txt_lines[1]
            /\ record_types' = BuildRecordTypes(fields)
            /\ parsed_records' =
                  IF PreviewRaises(txt_lines[1], BuildRecordTypes(fields))
                  THEN None
                  ELSE Some([record_types |-> BuildRecordTypes(fields),
                             all_lines |-> txt_lines[1],
                             encoding |-> used_encoding[1]])
    /\ pc' = "returned"
    /\ UNCHANGED <<cpy_file, txt_file, enc_idx, attempts, txt_lines,
                   used_encoding, escaped, pictureVars, copybookVars, header,
                   line_num, decoded, rows, records_written, line,
                   record_type, debtVars, viewerVars>>

NextRead == ReadCopybook \/ TryEncoding \/ AnalyzeDataFile

SpecRead == InitRead /\ [][NextRead]_vars

----------------------------------------------------------------------------
(* ConsumerAPI: the token, the response cache and query_debt.  The two     *)
(* servers are the environment: every POST and every GET draws its outcome *)
(* from the sets below.  HTTP status codes are written as their decimal    *)
(* text, next to the codes AUTH_ERROR, TIMEOUT and CONNECTION_ERROR.       *)

LoanPrefix == <<"0", "0", "3", "5", "0", "0", "0", "1">>

LoanDigits == 12

format_loan_id(number) ==
    LET clean_number == Remove(number, LoanPrefix)
    IN  LoanPrefix \o
        (IF Len(clean_number) > LoanDigits
         THEN SubSeq(clean_number, Len(clean_number) - LoanDigits + 1,
                     Len(clean_number))
         ELSE PadLeft(clean_number, LoanDigits))

\* the credit numbers queried
CreditNumbers == {<<"7">>, LoanPrefix \o <<"4", "2">>}

\* the seconds of a token's life the client gives up
TokenMargin == 30

MaxTime == 1

\* the expires_in of the tokens served: one that is expired on receipt and
\* one that lasts MaxTime seconds
ExpiresIn == {TokenMargin, TokenMargin + MaxTime}

\* the outcomes of the authentication POST: a RequestException, or a
\* response with its status and its body, a JSON object or the JSON null
AuthResponses ==
    {[error |-> Some("ConnectionError"), status |-> "", body |-> "",
      expires_in |-> 0]}
    \cup {[error |-> None, status |-> s, body |-> b, expires_in |-> e] :
            s \in {"200", "403"}, b \in {"object", "null"}, e \in ExpiresIn}

\* the outcomes of the debt GET: a Timeout, another RequestException, or a
\* response with its status and its body: a JSON object, the JSON null, or
\* a text that is not JSON
GetResponses ==
    {[error |-> Some(e), status |-> "", body |-> ""] :
        e \in {"Timeout", "ConnectionError"}}
    \cup {[error |-> None, status |-> s, body |-> b] :
            s \in {"200", "401", "403", "500"},
            b \in {"object", "null", "text"}}

\* authenticate() at the time t: what it returns or raises, and the token
\* it leaves
authenticate(a, t) ==
    IF a.error # None \/ a.status # "200"
    THEN [ok |-> FALSE, raised |-> None, access_token |-> access_token,
          token_expires_at |-> token_expires_at]
    ELSE IF a.body # "object"
    THEN [ok |-> FALSE, raised |-> Some("AttributeError"),
          access_token |-> access_token,
          token_expires_at |-> token_expires_at]
    ELSE [ok |-> TRUE, raised |-> None, access_token |-> Some("token"),
          token_expires_at |-> Some(t + a.expires_in - TokenMargin)]

is_token_valid == access_token # None /\ now < token_expires_at[1]

max_retries == 2

AuthErrorResult(number) ==
    [credit_number |-> number, status_code |-> "AUTH_ERROR",
     error |-> Some("Authentication failed"), response |-> None,
     timestamp |-> now, from_cache |-> FALSE]

\* the result built in the except clauses
ExceptionResult(number, code, message) ==
    [credit_number |-> number, formatted_id |-> format_loan_id(number),
     status_code |-> code, error |-> Some(message), response |-> None,
     timestamp |-> now, from_cache |-> FALSE, retry_count |-> retry_count]

\* the statements after the retry test, for the response g: the result
\* built, or the exception raised while building it.  response.json() of a
\* text that is not JSON raises requests' JSONDecodeError, which is both a
\* RequestException and a json.JSONDecodeError
ResponseResult(number, g) ==
    LET base == [credit_number |-> number,
                 formatted_id |-> format_loan_id(number),
                 status_code |-> g.status, error |-> None, response |-> None,
                 timestamp |-> now, from_cache |-> FALSE,
                 retry_count |-> retry_count]
    IN  IF g.status = "200"
        THEN IF g.body = "object"
             THEN [raised |-> None,
                   result |-> [base EXCEPT !.response = Some("object")]]
             ELSE IF g.body = "null"
             THEN [raised |-> Some("AttributeError"), result |-> base]
             ELSE [raised |-> None,
                   result |-> ExceptionResult(number, "CONNECTION_ERROR",
                                              "Expecting value")]
        ELSE IF g.body = "object"
             THEN [raised |-> None,
                   result |-> [base EXCEPT !.error = Some("message")]]
             ELSE IF g.body = "null"
             THEN [raised |-> Some("TypeError"), result |-> base]
             ELSE [raised |-> None,
                   result |-> [base EXCEPT !.error = Some("text")]]

\* the variables the client does not touch
clientFrame ==
    <<pictureVars, copybookVars, exportVars, classifyVars, viewerVars,
      cpy_file, txt_file, enc_idx, attempts, txt_lines, used_encoding,
      parsed_records>>

\* `return res` of query_debt; returned keeps, for each credit number, the
\* first result other than AUTH_ERROR that a call returned for it
Returns(res) ==
    /\ result' = Some(res)
    /\ returned' = IF res.status_code = "AUTH_ERROR"
                      \/ DictHas(returned, res.credit_number)
                   THEN returned
                   ELSE DictSet(returned, res.credit_number, res)
    /\ pc' = "idle"
    /\ escaped' = None

\* a cache that keeps the results of the 200 responses only
CacheResult_SuccessOnly(cache, number, res) ==
    IF res.status_code = "200" THEN DictSet(cache, number, res) ELSE cache

\* self.response_cache[credit_number] = result.copy()
CacheResult(cache, number, res) == DictSet(cache, number, res)

\* an exception leaves query_debt
Raises(exc) ==
    /\ pc' = "raised"
    /\ escaped' = exc
    /\ UNCHANGED <<result, returned, response_cache>>

\* the result of the response g is built, cached and returned
Finish(g) ==
    LET r == ResponseResult(credit_number[1], g)
    IN  IF r.raised # None THEN Raises(r.raised)
        ELSE /\ response_cache' = CacheResult(response_cache,
                                              credit_number[1], r.result)
             /\ Returns(r.result)

InitDebt ==
    /\ pc = "idle"
    /\ pic_in = <<>> /\ val_in = <<>> /\ pic_out = <<>> /\ fmt_out = <<>>
    /\ cpy = <<>> /\ cpy_idx = 0 /\ fields = <<>>
    /\ current_position = 1 /\ current_group_start = 1
    /\ redefines_groups = <<>> /\ structure_lengths = <<>>
    /\ all_lines = <<>> /\ record_types = <<>> /\ header = <<>>
    /\ line_num = 0 /\ line = <<>> /\ record_type = <<>> /\ decoded = <<>>
    /\ rows = <<>> /\ records_written = 0
    /\ ReadIdle /\ DebtIdle /\ ViewerIdle

\* time.time() advances between two calls
Tick ==
    /\ pc \in {"idle", "raised"}
    /\ now < MaxTime
    /\ now' = now + 1
    /\ UNCHANGED <<pc, access_token, token_expires_at, response_cache,
                   credit_number, retry_count, response, result, gets, posts,
                   returned, escaped, clientFrame>>

\* query_debt(number) up to the call of _query_debt_with_retry
query_debt ==
    /\ pc \in {"idle", "raised"}
    /\ \E number \in CreditNumbers :
         /\ credit_number' = Some(number)
         /\ retry_count' = 0 /\ gets' = 0 /\ posts' = 0 /\ response' = None
         /\ IF DictHas(response_cache, number)
            THEN Returns([DictGet(response_cache, number, None)
                            EXCEPT !.from_cache = TRUE])
            ELSE /\ pc' = "ensure" /\ result' = None /\ escaped' = None
                 /\ UNCHANGED returned
    /\ UNCHANGED <<access_token, token_expires_at, now, response_cache,
                   clientFrame>>

\* `if not self.ensure_authentication():` of _query_debt_with_retry
ensure_authentication ==
    /\ pc = "ensure"
    /\ IF is_token_valid
       THEN /\ pc' = "get"
            /\ UNCHANGED <<access_token, token_expires_at, posts, result,
                           returned, escaped>>
       ELSE \E a \in AuthResponses :
              LET r == authenticate(a, now)
              IN  /\ posts' = posts + 1
                  /\ access_token' = r.access_token
                  /\ token_expires_at' = r.token_expires_at
                  /\ IF r.raised # None
                     THEN /\ pc' = "raised" /\ escaped' = r.raised
                          /\ UNCHANGED <<result, returned>>
                     ELSE IF r.ok
                     THEN /\ pc' = "get"
                          /\ UNCHANGED <<result, returned, escaped>>
                     ELSE Returns(AuthErrorResult(credit_number[1]))
    /\ UNCHANGED <<now, response_cache, credit_number, retry_count, response,
                   gets, clientFrame>>

\* requests.get and the handling of its outcome, up to the forced
\* re-authentication
GetDebt ==
    /\ pc = "get"
    /\ gets' = gets + 1
    /\ \E g \in GetResponses :
         IF g.error = Some("Timeout")
         THEN /\ response_cache' =
                    CacheResult(response_cache, credit_number[1],
                                ExceptionResult(credit_number[1], "TIMEOUT",
                                                "Request timeout"))
              /\ Returns(ExceptionResult(credit_number[1], "TIMEOUT",
                                         "Request timeout"))
              /\ UNCHANGED <<access_token, token_expires_at, response>>
         ELSE IF g.error # None
         THEN /\ response_cache' =
                    CacheResult(response_cache, credit_number[1],
                                ExceptionResult(credit_number[1],
                                                "CONNECTION_ERROR",
                                                g.error[1]))
              /\ Returns(ExceptionResult(credit_number[1],
                                         "CONNECTION_ERROR", g.error[1]))
              /\ UNCHANGED <<access_token, token_expires_at, response>>
         ELSE IF g.status \in {"401", "403"} /\ retry_count < max_retries
         THEN /\ access_token' = None
              /\ token_expires_at' = None
              /\ response' = Some(g)
              /\ pc' = "reauth"
              /\ UNCHANGED <<result, returned, response_cache, escaped>>
         ELSE /\ Finish(g)
              /\ response' = Some(g)
              /\ UNCHANGED <<access_token, token_expires_at>>
    /\ UNCHANGED <<now, credit_number, retry_count, posts, clientFrame>>

\* `if self.authenticate():` after a 401 or 403: the retry with
\* retry_count + 1, or the result of the response when it fails
Reauthenticate ==
    /\ pc = "reauth"
    /\ posts' = posts + 1
    /\ \E a \in AuthResponses :
         LET r == authenticate(a, now)
         IN  /\ access_token' = r.access_token
             /\ token_expires_at' = r.token_expires_at
             /\ IF r.raised # None
                THEN Raises(r.raised) /\ UNCHANGED retry_count
                ELSE IF r.ok
                THEN /\ retry_count' = retry_count + 1
                     /\ pc' = "ensure"
                     /\ UNCHANGED <<result, returned, response_cache,
                                    escaped>>
                ELSE Finish(response[1]) /\ UNCHANGED retry_count
    /\ UNCHANGED <<now, credit_number, response, gets, clientFrame>>

NextDebt ==
    Tick \/ query_debt \/ ensure_authentication \/ GetDebt \/ Reauthenticate

SpecDebt == InitDebt /\ [][NextDebt]_vars

----------------------------------------------------------------------------
(* The CSV viewer: the paging state of CSVData, the handlers of the        *)
(* buttons, which run one at a time on the thread of the application, and  *)
(* the filter workers, which run_worker(..., thread=True) starts on        *)
(* threads of their own.  The workers and the handlers read and write      *)
(* csv_data without a lock: a handler is a sequence of steps, one for each *)
(* read or write of current_page, and the steps of the workers may come    *)
(* between them.  The handlers that write csv_data without reading it are  *)
(* one step.  The refresh of the table reads csv_data and writes widgets   *)
(* only.                                                                   *)

MaxRows == 3

MaxWorkers == 2

DefaultPageSize == 1000

MaxPageSize == 10000

\* the file has one column; its cells
Cells == {<<"a">>, <<"B", "a">>}

TheColumn == "c1"

\* the texts of the filter input
FilterTexts == {<<>>, <<" ">>, <<"b">>, <<"A">>, <<"z">>}

\* the texts of the page size input
PageSizeTexts ==
    {<<"1">>, <<" ", "2">>, <<"0">>, <<"-", "1">>, <<"x">>, <<>>,
     <<"1", "0", "0", "0", "0">>, <<"1", "0", "0", "0", "1">>}

\* int(text): None for a ValueError
IntOfText(text) ==
    LET t == Strip(text)
        negative == t # <<>> /\ t[1] = "-"
        digits == IF t # <<>> /\ t[1] \in {"-", "+"} THEN Tail(t) ELSE t
    IN  IF digits = <<>> \/ \E i \in DOMAIN digits : ~IsDigit(digits[i])
        THEN None
        ELSE Some(IF negative THEN 0 - ParseInt(digits) ELSE ParseInt(digits))

\* x.str.contains(filter_text, case=False) for a text without regular
\* expression operators
ContainsFolded(cell, filter_text) ==
    \E i \in DOMAIN cell : StartsWithAt(Upper(cell), i, Upper(filter_text))

\* the indices (0-based) of the rows whose cell contains the text, for a file
\* of one chunk
RECURSIVE MatchingIndices(_, _, _)
MatchingIndices(cells, i, filter_text) ==
    IF i > Len(cells) THEN <<>>
    ELSE (IF ContainsFolded(cells[i], filter_text) THEN <<i - 1>> ELSE <<>>)
         \o MatchingIndices(cells, i + 1, filter_text)

\* the value _apply_filter_worker gives to filtered_indices
FilterResult(filter_input) ==
    LET filter_text == Strip(filter_input)
    IN  IF filter_text = <<>> THEN None
        ELSE IF TheColumn \in visible_columns
        THEN Some(MatchingIndices(csv_rows, 1, filter_text))
        ELSE Some(<<>>)

PythonMax(a, b) == IF a >= b THEN a ELSE b

\* total_pages as on_next_page and _update_pagination_info compute it
TotalPages ==
    LET n == IF filtered_indices # None THEN Len(filtered_indices[1])
             ELSE total_rows
    IN  PythonMax(1, (n + page_size - 1) \div page_size)

InitViewer ==
    /\ pc = "viewer"
    /\ pic_in = <<>> /\ val_in = <<>> /\ pic_out = <<>> /\ fmt_out = <<>>
    /\ cpy = <<>> /\ cpy_idx = 0 /\ fields = <<>>
    /\ current_position = 1 /\ current_group_start = 1
    /\ redefines_groups = <<>> /\ structure_lengths = <<>>
    /\ all_lines = <<>> /\ record_types = <<>> /\ header = <<>>
    /\ line_num = 0 /\ line = <<>> /\ record_type = <<>> /\ decoded = <<>>
    /\ rows = <<>> /\ records_written = 0
    /\ ReadIdle /\ DebtIdle
    /\ csv_rows \in {<<>>} \cup SeqsUpTo(Cells, MaxRows)
    /\ total_rows = Len(csv_rows)
    /\ page_size = DefaultPageSize
    /\ current_page = 0
    /\ filtered_indices = None
    /\ visible_columns \in {{}, {TheColumn}}
    /\ ui_pc = "idle" /\ ui_local = 0 /\ workers = <<>>

\* the variables the viewer does not touch
viewerFrame ==
    <<pc, pictureVars, copybookVars, exportVars, classifyVars, readVars,
      debtVars, csv_rows, total_rows, visible_columns>>

\* on_filter_pressed: a worker thread is started
on_filter_pressed ==
    /\ ui_pc = "idle" /\ Len(workers) < MaxWorkers
    /\ workers' = Append(workers, "started")
    /\ UNCHANGED <<page_size, current_page, filtered_indices, ui_pc, ui_local,
                   viewerFrame>>

\* _apply_filter_worker up to the assignment of filtered_indices; the text
\* of the input is read when the worker runs
FilterWrite ==
    \E w \in DOMAIN workers : \E filter_input \in FilterTexts :
        /\ workers[w] = "started"
        /\ filtered_indices' = FilterResult(filter_input)
        /\ workers' = [workers EXCEPT ![w] = "written"]
        /\ UNCHANGED <<page_size, current_page, ui_pc, ui_local, viewerFrame>>

\* _apply_filter_worker: self.csv_data.current_page = 0, and the end of the
\* worker
FilterResetPage ==
    \E w \in DOMAIN workers :
        /\ workers[w] = "written"
        /\ current_page' = 0
        /\ workers' = SubSeq(workers, 1, w - 1)
                      \o SubSeq(workers, w + 1, Len(workers))
        /\ UNCHANGED <<page_size, filtered_indices, ui_pc, ui_local,
                       viewerFrame>>

\* on_clear_pressed
on_clear_pressed ==
    /\ ui_pc = "idle"
    /\ filtered_indices' = None
    /\ current_page' = 0
    /\ UNCHANGED <<page_size, ui_pc, ui_local, workers, viewerFrame>>

\* on_apply_page_size
on_apply_page_size ==
    /\ ui_pc = "idle"
    /\ \E text \in PageSizeTexts :
         LET new_size == IntOfText(text)
         IN  IF new_size # None /\ new_size[1] > 0
                /\ new_size[1] <= MaxPageSize
             THEN page_size' = new_size[1] /\ current_page' = 0
             ELSE UNCHANGED <<page_size, current_page>>
    /\ UNCHANGED <<filtered_indices, ui_pc, ui_local, workers, viewerFrame>>

\* on_prev_page: `if self.csv_data.current_page > 0`
PrevTest ==
    /\ ui_pc = "idle"
    /\ ui_pc' = IF current_page > 0 THEN "prev_load" ELSE "idle"
    /\ UNCHANGED <<page_size, current_page, filtered_indices, ui_local,
                   workers, viewerFrame>>

\* on_prev_page: the read of `self.csv_data.current_page -= 1`
PrevLoad ==
    /\ ui_pc = "prev_load"
    /\ ui_local' = current_page
    /\ ui_pc' = "prev_store"
    /\ UNCHANGED <<page_size, current_page, filtered_indices, workers,
                   viewerFrame>>

\* on_prev_page: the write of `self.csv_data.current_page -= 1`
PrevStore ==
    /\ ui_pc = "prev_store"
    /\ current_page' = ui_local - 1
    /\ ui_pc' = "idle" /\ ui_local' = 0
    /\ UNCHANGED <<page_size, filtered_indices, workers, viewerFrame>>

\* on_next_page: total_pages
NextTotal ==
    /\ ui_pc = "idle"
    /\ ui_local' = TotalPages
    /\ ui_pc' = "next_test"
    /\ UNCHANGED <<page_size, current_page, filtered_indices, workers,
                   viewerFrame>>

\* on_next_page: `if self.csv_data.current_page < total_pages - 1`
NextTest ==
    /\ ui_pc = "next_test"
    /\ IF current_page < ui_local - 1
       THEN ui_pc' = "next_load" /\ UNCHANGED ui_local
       ELSE ui_pc' = "idle" /\ ui_local' = 0
    /\ UNCHANGED <<page_size, current_page, filtered_indices, workers,
                   viewerFrame>>

\* on_next_page: the read of `self.csv_data.current_page += 1`
NextLoad ==
    /\ ui_pc = "next_load"
    /\ ui_local' = current_page
    /\ ui_pc' = "next_store"
    /\ UNCHANGED <<page_size, current_page, filtered_indices, workers,
                   viewerFrame>>

\* on_next_page: the write of `self.csv_data.current_page += 1`
NextStore ==
    /\ ui_pc = "next_store"
    /\ current_page' = ui_local + 1
    /\ ui_pc' = "idle" /\ ui_local' = 0
    /\ UNCHANGED <<page_size, filtered_indices, workers, viewerFrame>>

NextViewer ==
    \/ on_filter_pressed
    \/ FilterWrite
    \/ FilterResetPage
    \/ on_clear_pressed
    \/ on_apply_page_size
    \/ PrevTest
    \/ PrevLoad
    \/ PrevStore
    \/ NextTotal
    \/ NextTest
    \/ NextLoad
    \/ NextStore

SpecViewer == InitViewer /\ [][NextViewer]_vars

\* the viewer when no step of a worker comes between the steps of a handler
NextViewerSerial ==
    \/ on_filter_pressed
    \/ FilterWrite /\ ui_pc = "idle"
    \/ FilterResetPage /\ ui_pc = "idle"
    \/ on_clear_pressed
    \/ on_apply_page_size
    \/ PrevTest
    \/ PrevLoad
    \/ PrevStore
    \/ NextTotal
    \/ NextTest
    \/ NextLoad
    \/ NextStore

SpecViewerSerial == InitViewer /\ [][NextViewerSerial]_vars

----------------------------------------------------------------------------
(* Properties                                                              *)

\* the PICTURE 9..9V9..9 with a integer and b fraction digit positions
LiteralPicture(a, b) == Nines(a) \o <<"V">> \o Nines(b)

\* the PICTURE 9(a)V9(b)
RepeatPicture(a, b) ==
    <<"9", "(">> \o IntToStr(a) \o <<")", "V", "9", "(">> \o IntToStr(b)
    \o <<")">>

\* C1: parse_picture_clause on a numeric PICTURE with an implied decimal
\* marker returns the number of integer digit positions plus the number of
\* fraction digit positions, and the type numeric, in the literal form
\* (999V99 -> 5) and in the repetition form (9(7)V9(2) -> 9) alike.
C1_ImpliedDecimalLength ==
    pc \in {"interpreted", "scaled"} =>
        \A a \in 1..MaxIntDigits, b \in 1..MaxFracDigits :
            pic_in \in {LiteralPicture(a, b), RepeatPicture(a, b)}
                => pic_out = <<a + b, "numeric">>

\* the last row written and the cell it has in the column of a field name
LastRow == rows[Len(rows)]

CellOf(name) ==
    LastRow.cells[(CHOOSE k \in DOMAIN header : header[k] = name) - 2]

\* the field list the current line was decoded with
CurrentLayout == DictGet(record_types, record_type, <<>>)

N_NAME == <<"N", "A", "M", "E">>
N_AMT == <<"A", "M", "T">>
N_REC == <<"R", "E", "C">>

\* the run of the end-to-end scenario has written the row of the data line
EndToEndRow ==
    /\ cpy = <<L_REC, L_NAME, L_AMT>>
    /\ rows # <<>>
    /\ line = <<"A", "B", "C", "D", "E", "0", "0", "1", "2", "3", "4", "5">>

\* C2 as stated: the copybook REC / NAME PIC X(5) / AMT PIC 9(4)V99 and the
\* data line ABCDE0012345 decode to NAME = ABCDE and AMT = 123.45.
C2_EndToEnd_AsStated ==
    EndToEndRow =>
        /\ record_type = N_REC
        /\ CellOf(N_NAME) = <<"A", "B", "C", "D", "E">>
        /\ CellOf(N_AMT) = <<"1", "2", "3", ".", "4", "5">>

\* C2 as amended: the same copybook and data line decode to NAME = ABCDE
\* and AMT = 12.34: AMT is the six characters 001234 at offsets 6 to 11,
\* scaled by two fraction digits; the twelfth character is not part of it.
C2_EndToEnd ==
    EndToEndRow =>
        /\ record_type = N_REC
        /\ header = <<RECORD_TYPE, RECORD_NUMBER, N_NAME, N_AMT>>
        /\ CellOf(N_NAME) = <<"A", "B", "C", "D", "E">>
        /\ CellOf(N_AMT) = <<"1", "2", ".", "3", "4">>

C2_Witness == EndToEndRow /\ pc = "done"

\* the level-02 field that opens the group of the i-th field, 0 if none
GroupOf(i) ==
    LET gs == {g \in 1..i : fields[g].level = 2}
    IN  IF gs = {} THEN 0 ELSE CHOOSE g \in gs : \A h \in gs : h <= g

\* the level >= 5 fields of the group opened by the level-02 field g
Children(g) ==
    {i \in DOMAIN fields : fields[i].level >= 5 /\ GroupOf(i) = g}

\* the child before the child i in its group, 0 for the first child
PreviousChild(i) ==
    LET before == {j \in Children(GroupOf(i)) : j < i}
    IN  IF before = {} THEN 0 ELSE CHOOSE j \in before : \A k \in before : k <= j

\* C3: the level >= 5 fields of a level-02 group are contiguous in source
\* order: the first child starts where the group starts (1), every later
\* child starts at the previous child's start_pos + length, an elementary
\* field having its PICTURE length and a sub-group the length 0.  One group
\* with three level-05 fields of widths 3, 5, 2 gives the start positions
\* 1, 4, 9 and the computed group width 10.
C3_GroupContiguity ==
    /\ \A i \in DOMAIN fields :
        (fields[i].level >= 5 /\ GroupOf(i) # 0) =>
            /\ fields[i].length =
                   IF fields[i].picture # <<>>
                   THEN parse_picture_clause(fields[i].picture)[1] ELSE 0
            /\ fields[i].start_pos =
                   IF PreviousChild(i) = 0
                   THEN fields[GroupOf(i)].start_pos
                   ELSE fields[PreviousChild(i)].start_pos
                        + fields[PreviousChild(i)].length
            /\ PreviousChild(i) = 0 => fields[i].start_pos = 1
    /\ (cpy = <<L_REC, L_F1, L_F2, L_F3>> /\ pc # "parse" /\ fields # <<>>) =>
        /\ Len(fields) = 4
        /\ <<fields[2].length, fields[3].length, fields[4].length>>
               = <<3, 5, 2>>
        /\ <<fields[2].start_pos, fields[3].start_pos, fields[4].start_pos>>
               = <<1, 4, 9>>
        /\ structure_lengths = <<<<N_REC, 10>>>>

C3_Witness ==
    /\ cpy = <<L_REC, L_F1, L_F2, L_F3>>
    /\ pc = "confirm_parse"
    /\ Cardinality(Children(1)) = 3

\* C4: every level-02 line resets the cursor to 1 and is recorded with
\* start_pos 1, with or without REDEFINES and whatever came before; so the
\* field that follows a level-02 field starts at 1, in the redefined and in
\* the redefining group alike.
C4_Level02Restart ==
    /\ \A i \in DOMAIN fields :
        fields[i].level = 2 =>
            /\ fields[i].start_pos = 1
            /\ i < Len(fields) => fields[i + 1].start_pos = 1
            /\ i = Len(fields) => current_position = 1

\* both groups of a REDEFINES pair are parsed, the first one with a child
\* that moved the cursor, and the first child of each starts at 1
C4_Witness ==
    /\ redefines_groups # <<>>
    /\ \E g, h \in DOMAIN fields :
        /\ g + 1 < h /\ h < Len(fields)
        /\ fields[g].level = 2 /\ fields[h].level = 2
        /\ fields[h].name = redefines_groups[1][1]
        /\ fields[g].name = redefines_groups[1][2]
        /\ fields[g + 1].level >= 5 /\ fields[g + 1].length > 0
        /\ fields[h + 1].level >= 5
        /\ fields[g + 1].start_pos = 1 /\ fields[h + 1].start_pos = 1

\* the layout name the fixed lookup table gives a leading character
LookupName(c) ==
    CASE c = "1" -> UGEC_CAB_RECAUDAC
      [] c = "2" -> UGEC_DET_RECAUDAC
      [] c = "9" -> UGEC_TOT_RECAUDAC

\* the leading-character lookup selects one of the candidate layouts
LookupSelects ==
    /\ line # <<>>
    /\ line[1] \in {"1", "2", "9"}
    /\ DictHas(record_types, LookupName(line[1]))

\* the layouts that have fields, and the score of the i-th of them
Scored == {i \in DOMAIN record_types : record_types[i][2] # <<>>}

ScoreOf(i) ==
    1000 - Abs(Len(RStrip(line)) - MaxEndPos(record_types[i][2]))

\* the first layout in iteration order among those of the highest score
BestScored ==
    CHOOSE i \in Scored :
        /\ \A j \in Scored : ScoreOf(j) <= ScoreOf(i)
        /\ \A j \in Scored : ScoreOf(j) = ScoreOf(i) => i <= j

\* C5: with exactly one candidate layout, detect_record_type returns that
\* layout's name for every line content, the empty line included.
C5_SingleLayout ==
    (pc = "classified" /\ Len(record_types) = 1)
        => record_type = record_types[1][1]

\* C6: with several layouts and no selection by the leading character,
\* detect_record_type returns the layout of the highest score
\* 1000 - |len(line.rstrip()) - expected width| among the layouts that have
\* fields, the first one in iteration order on a tie, for every non-empty
\* line and every layout width.
C6_HighestScore ==
    (/\ pc = "classified"
     /\ Len(record_types) > 1
     /\ line # <<>>
     /\ ~LookupSelects
     /\ Scored # {})
        => record_type = record_types[BestScored][1]

\* C7: with more than one candidate layout, a line whose first character is
\* 1, 2 or 9 is classified as the layout the lookup table maps the character
\* to whenever that layout is among the candidates, whatever the length of
\* the line and the scores of the other layouts.
C7_LeadingCharacter ==
    (pc = "classified" /\ Len(record_types) > 1 /\ LookupSelects)
        => record_type = LookupName(line[1])

\* a line is classified by its leading character although another layout
\* has the strictly higher length score
C7_Witness ==
    /\ pc = "classified" /\ Len(record_types) > 1 /\ LookupSelects
    /\ record_type = LookupName(line[1])
    /\ Scored # {}
    /\ record_types[BestScored][1] # record_type
    /\ \E i \in Scored : record_types[i][1] = record_type
                         /\ ScoreOf(i) < ScoreOf(BestScored)

\* C8: for every line, the empty one included, and every non-empty mapping
\* of layouts, detect_record_type returns a key of the mapping; when neither
\* the lookup table nor the length heuristic selects a layout it returns the
\* first layout name.
C8_KnownLayout ==
    (pc = "classified" /\ record_types # <<>>) =>
        /\ DictHas(record_types, record_type)
        /\ (Len(record_types) > 1 /\ ~LookupSelects /\ Scored = {})
               => record_type = record_types[1][1]

\* a row has been written for the current line
Exported == rows # <<>>

\* the declared end offset of a field
EndOffset(f) == f.start_pos + f.length - 1

\* no two fields of the list have the same name
DistinctNames(fs) ==
    \A i, j \in DOMAIN fs : fs[i].name = fs[j].name => i = j

\* another field of the current layout has the name of the i-th one and
\* starts within the line
SameNameInLine(i) ==
    \E j \in DOMAIN CurrentLayout :
        /\ j # i
        /\ CurrentLayout[j].name = CurrentLayout[i].name
        /\ CurrentLayout[j].start_pos <= Len(line)

\* the loop decoded the i-th field of the current layout to the raw value v
DecodedRaw(i, v) ==
    \E k \in DOMAIN decoded : decoded[k].index = i /\ decoded[k].raw = v

NotDecoded(i) == \A k \in DOMAIN decoded : decoded[k].index # i

\* the row of the current line is complete
RowProduced ==
    /\ LastRow.record_type = record_type
    /\ LastRow.record_number \in 1..line_num
    /\ RStripNewline(all_lines[LastRow.record_number]) = line
    /\ Len(LastRow.cells) = Len(header) - 2

CharsAt(lo, hi) == [k \in 1..(hi - lo) |-> line[lo + k]]

\* the whitespace-trimmed slice of the line over the zero-based half-open
\* range [start_pos - 1, min(start_pos - 1 + length, len(line)))
TrimmedSlice(f) ==
    LET lo == f.start_pos - 1
        hi == IF lo + f.length < Len(line) THEN lo + f.length ELSE Len(line)
    IN  Strip(CharsAt(lo, hi))

\* the fields are decoded in order: the entries of decoded are those of the
\* fields that start within the line, in the order of the layout
DecodedInOrder ==
    /\ \A k \in DOMAIN decoded : decoded[k].index \in DOMAIN CurrentLayout
    /\ \A k, m \in DOMAIN decoded : k < m => decoded[k].index < decoded[m].index
    /\ \A i \in DOMAIN CurrentLayout :
        CurrentLayout[i].start_pos <= Len(line) => ~NotDecoded(i)

\* C10 as stated: for each field of the layout, in order: if start_pos <=
\* len(line) the raw value is the trimmed slice over [start_pos - 1,
\* min(start_pos - 1 + length, len(line))); otherwise the field is absent
\* and written as the empty string in the row.
C10_FieldSlices_AsStated ==
    Exported =>
        /\ DecodedInOrder
        /\ \A i \in DOMAIN CurrentLayout :
            IF CurrentLayout[i].start_pos <= Len(line)
            THEN DecodedRaw(i, TrimmedSlice(CurrentLayout[i]))
            ELSE /\ NotDecoded(i)
                 /\ CellOf(CurrentLayout[i].name) = <<>>

\* C10 as amended: the same, the cell of an absent field being the empty
\* string unless a field of the same name starts within the line (the row
\* has one cell per field name).
C10_FieldSlices ==
    Exported =>
        /\ DecodedInOrder
        /\ \A i \in DOMAIN CurrentLayout :
            IF CurrentLayout[i].start_pos <= Len(line)
            THEN DecodedRaw(i, TrimmedSlice(CurrentLayout[i]))
            ELSE /\ NotDecoded(i)
                 /\ ~SameNameInLine(i)
                        => CellOf(CurrentLayout[i].name) = <<>>

\* a row with a field whose slice is clamped to the line and trimmed, and
\* with a field beyond the line
C10_Witness ==
    /\ Exported
    /\ \E i, j \in DOMAIN CurrentLayout :
        /\ CurrentLayout[i].start_pos <= Len(line)
        /\ Len(line) < EndOffset(CurrentLayout[i])
        /\ DecodedRaw(i, TrimmedSlice(CurrentLayout[i]))
        /\ TrimmedSlice(CurrentLayout[i]) # <<>>
        /\ TrimmedSlice(CurrentLayout[i])
               # CharsAt(CurrentLayout[i].start_pos - 1, Len(line))
        /\ CurrentLayout[j].start_pos > Len(line)
        /\ NotDecoded(j)

\* a non-empty string of decimal digits
PureDigits(s) == s # <<>> /\ \A i \in DOMAIN s : IsDigit(s[i])

\* the PICTURE 9(a)V9..9 with b literal fraction digit positions
MixedPicture(a, b) ==
    <<"9", "(">> \o IntToStr(a) \o <<")", "V">> \o Nines(b)

\* C11: for every pure digit string and every PICTURE with an implied
\* decimal marker, format_numeric_field returns int(value) / 10^d rendered
\* with exactly d digits after the decimal point, d being the number of
\* digit positions after V as parse_picture_clause counts them: the n of a
\* (n) group after V, or else the number of 9 characters after V (d = 2 for
\* 9(4)V99 and for 9(7)V9(2) alike).
C11_ScalingDigits ==
    (pc = "scaled" /\ PureDigits(val_in)) =>
        \A a \in 1..MaxIntDigits, b \in 1..MaxFracDigits :
            pic_in \in {LiteralPicture(a, b), MixedPicture(a, b),
                        RepeatPicture(a, b)}
                => fmt_out = FormatScaled(val_in, b)

\* the value holds no decimal digit at all
NoDigit(s) == \A i \in DOMAIN s : ~IsDigit(s[i])

\* the value mixes decimal digits with other characters
MixedValue(s) == ~NoDigit(s) /\ ~PureDigits(s)

\* the number of literal 9 characters after the first V of the clause as
\* written, 0 without V
LiteralFractionDigits(picture) ==
    IF "V" \in Range(picture)
    THEN Count(From(picture, Find(picture, "V") + 1), "9")
    ELSE 0

C13_NumericScaled ==
    Exported =>
        \A k \in DOMAIN decoded :
            LET f == CurrentLayout[decoded[k].index]
            IN  (/\ f.field_type = "numeric"
                 /\ "V" \in Range(Upper(f.picture))
                 /\ PureDigits(decoded[k].raw))
                    => /\ decoded[k].value
                              = format_numeric_field(decoded[k].raw,
                                                     Upper(f.picture))
                       /\ decoded[k].value # decoded[k].raw

\* the line numbers, among the first n, of the lines that are not blank
NonBlankLines(n) ==
    {i \in 1..n : Strip(RStripNewline(all_lines[i])) # <<>>}

\* the header row has been written: the export loop has started
ExportStarted == header # <<>>

\* C14: export_to_csv produces exactly one data row per non-blank line of
\* the data file, in file order, each line classified first and then
\* decoded with the field list of the layout it was classified as; blank
\* lines produce no row, and RECORD_NUMBER is the 1-based position of the
\* line in the file, so that record numbers strictly increase down the
\* output.
C14_OneRowPerLine ==
    ExportStarted =>
        /\ {rows[k].record_number : k \in DOMAIN rows} = NonBlankLines(line_num)
        /\ Len(rows) = Cardinality(NonBlankLines(line_num))
        /\ records_written = Len(rows)
        /\ \A k \in 1..(Len(rows) - 1) :
               rows[k].record_number < rows[k + 1].record_number
        /\ \A k \in DOMAIN rows :
               LET ln == RStripNewline(all_lines[rows[k].record_number])
                   rt == detect_record_type(ln, record_types)
               IN  /\ rows[k].record_type = rt
                   /\ rows[k].cells =
                          RowCells(header,
                                   FieldValues(
                                       DecodeFields(ln, DictGet(record_types,
                                                                rt, <<>>), 1),
                                       1, <<>>))
        /\ pc = "done" => line_num = Len(all_lines)

\* the names of the elementary fields of all the layouts
LayoutFieldNames ==
    UNION {{record_types[i][2][j].name : j \in DOMAIN record_types[i][2]} :
              i \in DOMAIN record_types}

\* the field columns of the header, after RECORD_TYPE and RECORD_NUMBER
Columns == [k \in 1..(Len(header) - 2) |-> header[k + 2]]

\* the header row: the two fixed columns, then one column per distinct
\* elementary field name of the layouts
HeaderShape ==
    /\ Len(header) >= 2
    /\ header[1] = RECORD_TYPE /\ header[2] = RECORD_NUMBER
    /\ Range(Columns) = LayoutFieldNames
    /\ Len(Columns) = Cardinality(LayoutFieldNames)

\* the fields named n in the layout of the k-th row
RowFields(k, n) ==
    LET layout == DictGet(record_types, rows[k].record_type, <<>>)
    IN  {layout[i] : i \in {j \in DOMAIN layout : layout[j].name = n}}

RowLine(k) == RStripNewline(all_lines[rows[k].record_number])

\* C15 as stated: the header is RECORD_TYPE, RECORD_NUMBER and one column
\* per distinct elementary field name of all the layouts; every data row
\* has as many cells as the header; the cell of a field that does not belong
\* to the row's layout, or that lies beyond the line, is the empty string.
C15_HeaderAndCells_AsStated ==
    ExportStarted =>
        /\ HeaderShape
        /\ \A k \in DOMAIN rows :
            /\ Len(rows[k].cells) + 2 = Len(header)
            /\ \A c \in DOMAIN Columns :
                (\/ RowFields(k, Columns[c]) = {}
                 \/ \E f \in RowFields(k, Columns[c]) :
                        f.start_pos > Len(RowLine(k)))
                    => rows[k].cells[c] = <<>>

\* C15 as amended: the same header and row width; the cell of a column is
\* the empty string when no field of that name in the row's layout starts
\* within the line (the field does not belong to the layout, or every field
\* of that name lies beyond the line).
C15_HeaderAndCells ==
    ExportStarted =>
        /\ HeaderShape
        /\ \A k \in DOMAIN rows :
            /\ Len(rows[k].cells) + 2 = Len(header)
            /\ \A c \in DOMAIN Columns :
                (\A f \in RowFields(k, Columns[c]) :
                        f.start_pos > Len(RowLine(k)))
                    => rows[k].cells[c] = <<>>

\* a row of a file with two layouts: the column of the other layout's field
\* is empty, the column of a field of its own layout is not
C15_Witness ==
    /\ ExportStarted /\ rows # <<>>
    /\ Len(record_types) > 1
    /\ \E c, e \in DOMAIN Columns :
        /\ RowFields(Len(rows), Columns[c]) = {}
        /\ LastRow.cells[c] = <<>>
        /\ RowFields(Len(rows), Columns[e]) # {}
        /\ LastRow.cells[e] # <<>>

\* the trimmed line begins with a two-digit level, whitespace and the first
\* character of an identifier: the part of the field form that is not
\* optional
FieldForm(ln) ==
    /\ Len(ln) >= 4
    /\ IsDigit(ln[1]) /\ IsDigit(ln[2])
    /\ \E p \in 4..Len(ln) :
        /\ \A q \in 3..(p - 1) : ln[q] \in WhiteSpace
        /\ ln[p] \in NameChars

\* the copybook line the parser consumes next
NextCopybookLine == Strip(cpy[cpy_idx + 1])

IsBlankOrComment(raw_line) ==
    \/ Strip(raw_line) = <<>>
    \/ Strip(raw_line)[1] = "*"
    \/ StartsWithAt(raw_line, 1, <<" ", " ", " ", " ", " ", " ", "*">>)

\* the lines without the blank and comment lines
RECURSIVE WithoutNoise(_)
WithoutNoise(lines) ==
    IF lines = <<>> THEN <<>>
    ELSE (IF IsBlankOrComment(lines[1]) THEN <<>> ELSE <<lines[1]>>)
         \o WithoutNoise(Tail(lines))

\* the copybook lines consumed so far
Consumed == SubSeq(cpy, 1, cpy_idx)

\* C17: blank lines and comment lines have no effect on parsing: the field
\* list (names, levels, start positions, lengths, in order) and the cursor
\* after any number of lines of a copybook are those of the same lines with
\* the blank and comment lines removed, wherever these lines stand.
C17_NoiseLines ==
    ((pc = "parse" /\ cpy_idx > 0) \/ pc = "confirm_parse") =>
        LET st == ParseLines(WithoutNoise(Consumed), 1, ParserStart)
        IN  /\ fields = st.fields
            /\ current_position = st.current_position

\* a copybook with a commented-out field line between two field lines has
\* been parsed to the end, and the two fields are contiguous
C17_Witness ==
    /\ pc = "confirm_parse"
    /\ \E i \in 2..(Len(cpy) - 1) :
        /\ cpy[i] = L_OLD
        /\ ~IsBlankOrComment(cpy[i - 1]) /\ ~IsBlankOrComment(cpy[i + 1])
    /\ Len(fields) = Len(cpy) - 1
    /\ \E k \in 2..(Len(fields) - 1) :
        /\ fields[k].length > 0
        /\ fields[k + 1].level >= 5
        /\ fields[k + 1].start_pos = fields[k].start_pos + fields[k].length

\* the elementary fields below the i-th field: the PIC-bearing fields that
\* follow it before the next field of its level or of a lower level number
Descendants(i) ==
    {j \in (i + 1)..Len(fields) :
        /\ fields[j].picture # <<>>
        /\ \A k \in (i + 1)..j : fields[k].level > fields[i].level}

\* the maximum end offset of the descendants, 0 without descendants
MaxDescendantEnd(i) ==
    LET ends == {EndOffset(fields[j]) : j \in Descendants(i)} \cup {0}
    IN  CHOOSE m \in ends : \A e \in ends : e <= m

\* the copybook has been parsed and the second pass has run
ParseReturned == pc \in {"confirm_parse", "confirm_export", "rows"}

\* C18: in the field list parse_cobol_copybook returns, every field's
\* length is >= 0, and every group field (no PICTURE clause) has a length
\* equal to the maximum end offset (start_pos + length - 1) of its
\* descendant elementary fields.
C18_GroupLength ==
    ParseReturned =>
        \A i \in DOMAIN fields :
            /\ fields[i].length >= 0
            /\ fields[i].picture = <<>>
                   => fields[i].length = MaxDescendantEnd(i)

\* parse_data_file has grouped the fields into record layouts
LayoutsBuilt == all_lines # <<>>

\* the PIC-bearing fields that follow the level-02 field g up to the next
\* level-02 field, in source order
RECURSIVE FollowingElementary(_)
FollowingElementary(g) ==
    IF g + 1 > Len(fields) \/ fields[g + 1].level = 2 THEN <<>>
    ELSE (IF fields[g + 1].picture # <<>> THEN <<fields[g + 1]>> ELSE <<>>)
         \o FollowingElementary(g + 1)

Level02 == {g \in DOMAIN fields : fields[g].level = 2}

RecordHeads == {g \in DOMAIN fields : fields[g].level \in {1, 2}}

\* the last level-01/02 entry of the name n
LastHeadNamed(n) ==
    CHOOSE g \in RecordHeads :
        /\ fields[g].name = n
        /\ \A h \in RecordHeads : fields[h].name = n => h <= g

\* the PIC-bearing fields that follow the entry g up to the next level-01/02
\* entry, in source order
RECURSIVE FollowingHead(_)
FollowingHead(g) ==
    IF g + 1 > Len(fields) \/ (g + 1) \in RecordHeads THEN <<>>
    ELSE (IF fields[g + 1].picture # <<>> THEN <<fields[g + 1]>> ELSE <<>>)
         \o FollowingHead(g + 1)

\* the PIC-bearing fields of the whole list, in source order
PicFields ==
    LET idx == {i \in DOMAIN fields : fields[i].picture # <<>>}
        RECURSIVE Pick(_)
        Pick(i) == IF i > Len(fields) THEN <<>>
                   ELSE (IF i \in idx THEN <<fields[i]>> ELSE <<>>)
                        \o Pick(i + 1)
    IN  Pick(1)

GroupStarts(u, c) ==
    {i \in DOMAIN u :
        /\ u[i] = c
        /\ i + 3 <= Len(u)
        /\ u[i + 1] = "("
        /\ \E j \in (i + 3)..Len(u) :
            /\ u[j] = ")"
            /\ \A k \in (i + 2)..(j - 1) : IsDigit(u[k])}

GroupCount(u, i) ==
    LET j == CHOOSE j \in (i + 3)..Len(u) :
                 u[j] = ")" /\ \A k \in (i + 2)..(j - 1) : IsDigit(u[k])
    IN  ParseInt(SubSeq(u, i + 2, j - 1))

\* the length the claim gives a clause of the character c: the n of its
\* (first) c(n) group, or else the number of literal c characters
StatedLength(u, c) ==
    IF GroupStarts(u, c) # {}
    THEN GroupCount(u, CHOOSE i \in GroupStarts(u, c) :
                           \A j \in GroupStarts(u, c) : i <= j)
    ELSE Count(u, c)

\* C20: parse_picture_clause returns the type alphanumeric for every clause
\* that holds X, with the length n of an X(n) group or else the number of
\* literal X characters (X(30) -> 30, XXX -> 3); for a clause without X
\* that holds 9 and no V it returns the type numeric, with the length n of a
\* 9(n) group or else the number of literal 9 characters (9(10) -> 10,
\* 999 -> 3).
C20_PlainPictures ==
    pc \in {"interpreted", "scaled"} =>
        LET u == Upper(pic_in)
        IN  /\ "X" \in Range(u)
                => pic_out = <<StatedLength(u, "X"), "alphanumeric">>
            /\ ("X" \notin Range(u) /\ "9" \in Range(u) /\ "V" \notin Range(u))
                => pic_out = <<StatedLength(u, "9"), "numeric">>
            /\ pic_in = <<"X", "(", "3", "0", ")">>
                => pic_out = <<30, "alphanumeric">>
            /\ pic_in = <<"X", "X", "X">> => pic_out = <<3, "alphanumeric">>
            /\ pic_in = <<"9", "(", "1", "0", ")">>
                => pic_out = <<10, "numeric">>
            /\ pic_in = <<"9", "9", "9">> => pic_out = <<3, "numeric">>

\* 9(10) has been interpreted as a numeric field of length 10
C20_Witness ==
    /\ pc = "interpreted"
    /\ pic_in = <<"9", "(", "1", "0", ")">>
    /\ pic_out = <<10, "numeric">>

----------------------------------------------------------------------------
\* C21: decimal scaling is idempotent on its own output: for every pure
\* digit string and every PICTURE with at least one fraction digit,
\* format_numeric_field applied with the same PICTURE to its own output
\* returns that output unchanged.
C21_Idempotent ==
    [][(pc = "scaled" /\ PureDigits(val_in)
        /\ LiteralFractionDigits(pic_in) >= 1)
            => fmt_out' = fmt_out]_vars

----------------------------------------------------------------------------
\* the raw digits and the PICTURE of the worked example
ExampleDigits == <<"0", "0", "0", "0", "1", "2", "3", "4", "5">>

ExamplePicture == Nines(6) \o <<"V">> \o Nines(2)

ExampleScaled ==
    pc = "scaled" /\ val_in = ExampleDigits /\ pic_in = ExamplePicture

\* C24 as stated: given the raw digits '000012345' and the PICTURE
\* 999999V99, format_numeric_field returns '1234.45'.
C24_Example_AsStated ==
    ExampleScaled => fmt_out = <<"1", "2", "3", "4", ".", "4", "5">>

\* C24: given the raw digits '000012345' and the PICTURE 999999V99 (2
\* fraction digits), format_numeric_field returns '123.45'.
C24_Example ==
    ExampleScaled => fmt_out = <<"1", "2", "3", ".", "4", "5">>

C24_Witness == ExampleScaled /\ fmt_out = <<"1", "2", "3", ".", "4", "5">>

----------------------------------------------------------------------------
\* the level number a line of the field form begins with
LineLevel(ln) == ParseInt(SubSeq(ln, 1, 2))

LastField == fields[Len(fields)]

\* the step that consumes a line of the field form
FieldLineStep ==
    /\ pc = "parse" /\ cpy_idx < Len(cpy) /\ cpy_idx' # cpy_idx
    /\ FieldForm(NextCopybookLine)

\* a level-01 line followed by an elementary field of level 5 or more
Level01Heads ==
    {i \in 1..(Len(fields) - 1) :
        /\ fields[i].level = 1
        /\ fields[i + 1].level >= 5 /\ fields[i + 1].picture # <<>>}

----------------------------------------------------------------------------
\* X, 9, V, parentheses and digits, in either case
PictureTokenStart ==
    {"X", "x", "V", "v", "(", ")", "0", "1", "2", "3", "4", "5", "6", "7",
     "8", "9"}

\* the line has a PIC keyword whose token begins with a character outside
\* X, 9, V, parentheses and digits
BadPicture(ln) ==
    \E p \in 1..Len(ln) :
        /\ ln[p] \in WhiteSpace
        /\ KeywordAt(ln, p + 1, <<"P", "I", "C">>)
        /\ LET c == RunEnd(ln, p + 4, WhiteSpace)
           IN  c > p + 4 /\ c <= Len(ln) /\ ln[c] \notin PictureTokenStart

\* C26: a field line whose PIC token begins with a character outside X, 9,
\* V, parentheses and digits is still accepted as a field: it is recorded
\* with picture None, type group and length 0, the cursor does not advance,
\* and every following field of the group starts at the offset this field
\* would have occupied.
C26_BadPicture ==
    /\ [][(FieldLineStep /\ BadPicture(NextCopybookLine)) =>
            /\ Len(fields') = Len(fields) + 1
            /\ fields'[Len(fields')].picture = <<>>
            /\ fields'[Len(fields')].field_type = "group"
            /\ fields'[Len(fields')].length = 0
            /\ fields'[Len(fields')].start_pos =
                   (IF LineLevel(NextCopybookLine) = 2 THEN 1
                    ELSE current_position)
            /\ current_position' = fields'[Len(fields')].start_pos]_vars
    /\ [](\A i \in 1..(Len(fields) - 1) :
            (fields[i].field_type = "group" /\ fields[i + 1].level # 2)
                => fields[i + 1].start_pos = fields[i].start_pos)

\* PIC S9(4) and PIC A(3) were consumed after NAME: both are group fields
\* of length 0 at offset 6, and AMT behind them starts at 6 as well
C26_Witness ==
    /\ cpy = <<L_REC, L_NAME, L_SGN, L_ALPHA, L_AMT>>
    /\ pc = "parse" /\ cpy_idx = 5
    /\ fields[3].picture = <<>> /\ fields[3].field_type = "group"
    /\ fields[3].length = 0 /\ fields[3].start_pos = 6
    /\ fields[4].field_type = "group" /\ fields[4].start_pos = 6
    /\ fields[5].start_pos = 6 /\ fields[5].picture # <<>>

----------------------------------------------------------------------------
\* the layout of the k-th row
RowLayout(k) == DictGet(record_types, rows[k].record_type, <<>>)

\* the positions, in the layout of the k-th row, of the fields named n whose
\* start_pos lies within the line
NamedWithin(k, n) ==
    {j \in DOMAIN RowLayout(k) :
        /\ RowLayout(k)[j].name = n
        /\ RowLayout(k)[j].start_pos <= Len(RowLine(k))}

LastOf(S) == CHOOSE j \in S : \A i \in S : i <= j

\* C27: when a layout holds several elementary fields of one name (a
\* repeated FILLER, say) the CSV has a single column for that name, and a
\* row carries in it the value of the last such field, in layout order,
\* whose start_pos lies within the line; the values of the earlier fields
\* of that name are dropped.
C27_SameName ==
    ExportStarted =>
        /\ \A c, e \in DOMAIN Columns : Columns[c] = Columns[e] => c = e
        /\ LayoutFieldNames \subseteq Range(Columns)
        /\ \A k \in DOMAIN rows : \A c \in DOMAIN Columns :
               NamedWithin(k, Columns[c]) # {} =>
                   rows[k].cells[c] =
                       FieldValue(RowLine(k),
                                  RowLayout(k)[LastOf(NamedWithin(k, Columns[c]))])

\* a row whose layout holds two fields of one name, both within the line:
\* the column has the value of the second, which differs from the first
C27_Witness ==
    /\ ExportStarted /\ rows # <<>>
    /\ \E c \in DOMAIN Columns :
         LET S == NamedWithin(Len(rows), Columns[c])
         IN  /\ Cardinality(S) = 2
             /\ \E j \in S :
                    /\ j # LastOf(S)
                    /\ FieldValue(RowLine(Len(rows)), RowLayout(Len(rows))[j])
                           # LastRow.cells[c]

----------------------------------------------------------------------------
\* the file cannot be opened, or cannot be decoded under any of the encodings
Unreadable(file, encodings) ==
    \/ file.error # None
    \/ \A k \in DOMAIN encodings : ~ReadLines(file.bytes, encodings[k]).ok

\* C22: an unreadable or undecodable source never propagates an exception
\* to the caller: parse_cobol_copybook returns an empty field list when the
\* copybook cannot be opened or decoded, and parse_data_file returns no
\* result when the data file cannot be opened or decoded under any
\* attempted encoding.
C22_NoException ==
    /\ escaped = None /\ pc # "raised"
    /\ (pc # "read_cpy" /\ Unreadable(cpy_file, <<"utf-8">>)) => fields = <<>>
    /\ (pc = "returned"
        /\ Unreadable(txt_file, <<"utf-8", "latin-1", "cp1252", "ascii">>))
           => parsed_records = None

\* the copybook was read, the data file cannot be opened, and
\* parse_data_file has returned None after one attempt
C22_Witness ==
    /\ pc = "returned" /\ fields # <<>>
    /\ txt_file.error = Some("PermissionError")
    /\ attempts = <<"utf-8">> /\ parsed_records = None /\ escaped = None

\* UTF-8, then Latin-1, then Windows-1252, then ASCII
PreferenceOrder == <<"utf-8", "latin-1", "cp1252", "ascii">>

\* the file opens and its bytes do not decode under the encoding
DecodeFails(file, encoding) ==
    file.error = None /\ ~ReadLines(file.bytes, encoding).ok

\* C23: parse_data_file attempts to decode the data file as UTF-8, then
\* Latin-1, then Windows-1252, then ASCII, in that order; an encoding is
\* attempted only after every earlier one failed with a decode error, and
\* the encoding reported and returned is the first one in that order under
\* which decoding succeeded.
C23_EncodingOrder ==
    /\ Len(attempts) <= Len(PreferenceOrder)
    /\ attempts = SubSeq(PreferenceOrder, 1, Len(attempts))
    /\ \A j \in DOMAIN attempts : \A k \in 1..(j - 1) :
           DecodeFails(txt_file, PreferenceOrder[k])
    /\ used_encoding # None =>
           /\ used_encoding[1] = attempts[Len(attempts)]
           /\ ReadLines(txt_file.bytes, used_encoding[1]).ok
           /\ txt_lines = Some(ReadLines(txt_file.bytes, used_encoding[1]).text)
    /\ parsed_records # None =>
           /\ used_encoding # None
           /\ parsed_records[1].encoding = used_encoding[1]

\* the data file is not UTF-8: Latin-1 was attempted after UTF-8 and is the
\* encoding returned
C23_Witness ==
    /\ pc = "returned"
    /\ attempts = <<"utf-8", "latin-1">>
    /\ parsed_records # None
    /\ parsed_records[1].encoding = "latin-1"

----------------------------------------------------------------------------
\* the call has not ended with an exception
AlwaysReturns == pc # "raised" /\ escaped = None

\* at most 3 GETs in a call and no retry_count beyond 2
RetryBounds ==
    /\ gets <= 3 /\ retry_count <= 2
    /\ (result # None /\ "retry_count" \in DOMAIN result[1])
          => result[1].retry_count <= 2
    /\ pc = "reauth" =>
          /\ retry_count < 2
          /\ access_token = None /\ token_expires_at = None
          /\ response[1].status \in {"401", "403"}

\* a retry follows a forced re-authentication that succeeded, and a forced
\* re-authentication that failed returns the result of the 401/403 response
RetrySteps ==
    /\ retry_count' = retry_count + 1 => pc = "reauth" /\ pc' = "ensure"
    /\ (pc = "reauth" /\ pc' = "idle") =>
          /\ result'[1].status_code = response[1].status
          /\ result'[1].retry_count = retry_count
          /\ gets' = gets

\* C28: a single query_debt call for an uncached credit number always
\* returns a result and performs at most 3 debt GET requests: a 401/403
\* response triggers a forced re-authentication (token cleared first) and a
\* retry only while retry_count < 2, the retry_count reported in any result
\* is at most 2, and a failed re-authentication ends the call with the
\* 401/403 result instead of retrying.
C28_AlwaysReturnsWithinBounds ==
    [](AlwaysReturns /\ RetryBounds) /\ [][RetrySteps]_vars

\* the part of C28 about the requests and the retries
C28_Bounds == []RetryBounds /\ [][RetrySteps]_vars

\* a step that is a call of query_debt
CallStarts == pc \in {"idle", "raised"} /\ now' = now

\* C29: once query_debt has returned for a credit number a result whose
\* status is anything other than AUTH_ERROR, every later query_debt for that
\* credit number returns that same result with from_cache = True and
\* performs no authentication and no HTTP request; AUTH_ERROR results are
\* never stored in the cache, so a later call for that number tries again.
C29_CachedForever ==
    /\ [][CallStarts =>
            IF DictHas(returned, credit_number'[1])
            THEN /\ pc' = "idle"
                 /\ result' = Some([DictGet(returned, credit_number'[1], None)
                                      EXCEPT !.from_cache = TRUE])
                 /\ gets' = 0 /\ posts' = 0
            ELSE pc' = "ensure"]_vars
    /\ [](/\ \A i \in DOMAIN response_cache :
               response_cache[i][2].status_code # "AUTH_ERROR"
          /\ pc \in {"ensure", "get", "reauth"}
                => ~DictHas(returned, credit_number[1]))

\* a call has returned the cached TIMEOUT result of an earlier call, without
\* a request
C29_Witness ==
    /\ pc = "idle" /\ result # None
    /\ result[1].from_cache = TRUE
    /\ result[1].status_code = "TIMEOUT"
    /\ result[1].timestamp < now
    /\ gets = 0 /\ posts = 0

\* an AUTH_ERROR result was returned and nothing is cached
AuthErrorReturned ==
    /\ pc = "idle" /\ result # None
    /\ result[1].status_code = "AUTH_ERROR" /\ response_cache = <<>>

\* a third GET of a call got a 401 and its result was returned
ThirdGetReturned ==
    /\ pc = "idle" /\ gets = 3 /\ result # None
    /\ result[1].status_code = "401" /\ result[1].retry_count = 2

----------------------------------------------------------------------------
\* max(1, ceil(rows in view / page_size))
ClaimedTotalPages ==
    LET n == IF filtered_indices # None THEN Len(filtered_indices[1])
             ELSE total_rows
        ceil == IF n % page_size = 0 THEN n \div page_size
                ELSE (n \div page_size) + 1
    IN  IF ceil >= 1 THEN ceil ELSE 1

\* no handler is running and no filter worker has started and not ended
Quiescent == ui_pc = "idle" /\ workers = <<>>

\* C30: after any sequence of previous-page, next-page, apply-filter,
\* clear-filter and apply-page-size events, and whenever no background
\* filter worker is in the middle of its update, 0 <= current_page <=
\* total_pages - 1, where total_pages = max(1, ceil(rows in view /
\* page_size)); page_size always stays within 1..10000.
C30_PageInRange ==
    /\ page_size >= 1 /\ page_size <= 10000
    /\ Quiescent =>
          current_page >= 0 /\ current_page <= ClaimedTotalPages - 1

\* the part of C30 about page_size
C30_PageSizeInRange == page_size >= 1 /\ page_size <= 10000

====
